---------------------------- MODULE Spec2Model ----------------------------
(***************************************************************************)
(* Job dispatch engine of the Jest Lua test server.                        *)
(*                                                                         *)
(*   POST /test      run_test        (server/app/endpoints/test.py)        *)
(*   GET  /_events   event_generator (server/app/endpoints/events.py)      *)
(*   POST /_results  submit_results  (server/app/endpoints/results.py)     *)
(*                                                                         *)
(* All handlers are coroutines on one asyncio event loop: the code between *)
(* two suspension points (an await that really suspends, or a yield of an  *)
(* async generator) runs atomically, so every action below is one such     *)
(* stretch of a handler.  `await test_queue.put(x)` on the unbounded       *)
(* asyncio.Queue of main.py:78 never suspends and is part of the stretch   *)
(* that contains it.                                                       *)
(***************************************************************************)
EXTENDS Integers, Sequences, FiniteSets, TLC

\* ------------------------------------------------------------------ bounds
\* Number of submissions that are accepted in one behaviour.
MaxJobs == 2
\* Number of worker sessions (GET /_events connections) in one behaviour.
MaxSessions == 2
\* Chunk size configured in the dispatch specification.
DispatchChunkSize == 8
\* Largest chunk size configured in the streaming specification.
MaxChunkSize == 17
\* Longest payload tail following the signature in the streaming specification.
MaxTail == 2
\* Largest max_requests_per_minute configured in the admission specification.
MaxRate == 2
\* max_rbxm_size configured in the admission specification.
AdmitMaxSize == 9
\* The clock of the admission specification advances by ClockStep seconds,
\* up to MaxNow.
ClockStep == 30
MaxNow == 120
\* shutdown_timeout (seconds) configured in the admission and the drain
\* specification.
DrainTimeout == 1
\* The clock of the monitor specification runs up to MaxMonitorNow seconds.
MaxMonitorNow == 12

\* ------------------------------------------------------- program constants
\* BaseConfig.test_timeout
test_timeout == 30
\* DevelopmentConfig.max_requests_per_minute
max_requests_per_minute == 60
\* BaseConfig.max_rbxm_size, 50 * 1024 * 1024
max_rbxm_size == 52428800
\* BaseConfig.shutdown_timeout
shutdown_timeout == 30
\* BaseConfig.enable_auth
enable_auth == TRUE
\* lifespan: wait_interval = 0.5, the polls of the drain loop per second
PollsPerSecond == 2
\* monitor_heartbeat: `if time_since_heartbeat > 8`
StaleAfter == 8
\* monitor_heartbeat: `await asyncio.sleep(1)`
MonitorInterval == 1
\* _wait_for_process: `await asyncio.sleep(0.5)`, polls per second
WaitPollsPerSecond == 2
\* stop_studio: `asyncio.wait_for(self._wait_for_process(), timeout=5.0)`
kill_timeout == 5

\* RBXM_SIGNATURE = b"<roblox!"
RBXM_SIGNATURE == <<60, 114, 111, 98, 108, 111, 120, 33>>

None == "None"
\* current_test_data = None
NoTestData == [test_id |-> 0, data |-> <<>>]
\* _last_heartbeat = None; a recorded heartbeat is the one-element sequence
\* of its timestamp
NoHeartbeat == <<>>
Sessions == 1..MaxSessions
TestIds == 1..MaxJobs
Clients == {"10.0.0.1"}
\* the clients of the admission specification
AdmitClients == Clients \cup {"10.0.0.2"}

\* ----------------------------------------------------------------- helpers
Last(s) == s[Len(s)]

RECURSIVE CountIn(_, _)
\* number of entries of queue q that carry test id t
CountIn(q, t) ==
  IF q = <<>> THEN 0
  ELSE (IF Head(q).test_id = t THEN 1 ELSE 0) + CountIn(Tail(q), t)

\* python: data[i : j] on a sequence indexed from 0 (slice bounds clamp)
Slice(data, i, j) ==
  LET hi == IF j > Len(data) THEN Len(data) ELSE j
  IN  IF i >= hi THEN <<>> ELSE SubSeq(data, i + 1, hi)

\* ------------------------------------------------------------------ base64
\* A character of the encoded text is its index in the base64 alphabet,
\* 0..63, and PadChar for '='.
PadChar == 64

\* base64.b64encode of one group of 1..3 bytes
EncodeGroup(g) ==
  LET b1 == g[1]
      b2 == IF Len(g) >= 2 THEN g[2] ELSE 0
      b3 == IF Len(g) >= 3 THEN g[3] ELSE 0
      n  == b1 * 65536 + b2 * 256 + b3
  IN  << n \div 262144,
         (n \div 4096) % 64,
         IF Len(g) >= 2 THEN (n \div 64) % 64 ELSE PadChar,
         IF Len(g) >= 3 THEN n % 64 ELSE PadChar >>

RECURSIVE b64encode(_)
\* base64.b64encode(rbxm_data).decode("utf-8")
b64encode(data) ==
  IF data = <<>> THEN <<>>
  ELSE IF Len(data) <= 3 THEN EncodeGroup(data)
  ELSE EncodeGroup(SubSeq(data, 1, 3)) \o b64encode(SubSeq(data, 4, Len(data)))

\* ceil(len(b64_rbxm) / app_config.chunk_size)
FinalChunkIdx(len, size) == (len + size - 1) \div size

\* _chunk_data_async: the chunk produced at offset i, data[i : i + chunk_size]
ChunkAtShort(data, i, size) == Slice(data, i, i + size - 1)
ChunkAt(data, i, size) == Slice(data, i, i + size)

\* _chunk_data_async: range(0, len(data), chunk_size) has another offset after i
HasChunkAt(data, i) == i < Len(data)

\* ---------------------------------------------------------------- variables
VARIABLES
  app_config,         \* config_manager.config: [chunk_size]
  accepting_tests,    \* app.state.accepting_tests
  rate_limiter,       \* app.state.rate_limiter: client -> timestamps (seconds)
  now,                \* datetime.now(), in seconds
  test_queue,         \* app.state.test_queue: FIFO of [test_id, data]
  active_tests,       \* app.state.active_tests: test_id -> [data, future]
  next_id,            \* the next fresh test id (uuid4 is modelled by a counter)
  handler,            \* run_test coroutine of each test id: [pc, bound, response]
  test_reply,         \* HTTP status of the last rejected POST /test (0: none)
  studio_healthy,     \* all(studio_manager.is_healthy().values())
  results_reply,      \* the last POST /_results: [test_id, status, log]
  plugin_connections, \* studio_manager._plugin_connections
  sess,               \* event_generator of each session: its locals and position
  stream,             \* session -> the events it has yielded, in order
  started,            \* test ids whose test_start event has been yielded
  requeued,           \* test ids that were put back into the queue by a session
  delivered,          \* test ids whose chunk loop ran to its end (events.py:104)
  repro_hangs,        \* the files of repro/hangs: test id (file stem) -> content
  lifespan,           \* lifespan(): [pc, elapsed], elapsed in wait intervals
  studio,             \* studio_manager: [process, last_heartbeat]
  monitor,            \* monitor_heartbeat: [log, restarts], what its last tick
                      \* logged and the stop-then-start cycles it has run
  manager,            \* the start_studio / stop_studio call of studio_manager:
                      \* [pc, call, ret, polls, ops], ops being what the call
                      \* has done to the process so far, in order
  restart_steps,      \* what the last restart of the monitor ran, in order
  health_watch,       \* the task of _monitor_process_health: [pc, log]
  processes,          \* the processes Popen has created, in the order of
                      \* their launch: "alive" or "exited"; the handle of
                      \* studio_manager, when it has one, is on the last
  auth                \* internal_auth and the internal request at hand:
                      \* [session_token, credentials, status]

vars == << app_config, accepting_tests, rate_limiter, now, test_queue,
           active_tests, next_id, handler, test_reply, studio_healthy,
           results_reply, plugin_connections, sess, stream,
           started, requeued, delivered, repro_hangs, lifespan,
           studio, monitor, manager, restart_steps, health_watch, processes,
           auth >>

configVars   == << app_config >>
diagVars     == << repro_hangs >>
lifespanVars == << lifespan >>
monitorVars  == << studio, monitor >>
managerVars  == << manager, restart_steps >>
authVars     == << auth >>
watchVars    == << health_watch >>
processVars  == << processes >>
submitVars   == << accepting_tests, rate_limiter, now, next_id, handler, test_reply >>
sessionVars  == << plugin_connections, sess, stream, started,
                   requeued, delivered >>

\* a result as the worker posts it (TestResults of results.py), the fields
\* the handlers read
Outcomes ==
  { [success |-> TRUE,  passed |-> 3, failed |-> 0, error |-> None],
    [success |-> FALSE, passed |-> 1, failed |-> 2, error |-> "boom"] }

\* asyncio.Future()
PendingFuture == [state |-> "pending", result |-> None]
NoResponse == [status |-> "none", results |-> None, error |-> None]
IdleHandler == [pc |-> "none", bound |-> 0, response |-> NoResponse]
IdleSession ==
  [pc |-> "new", current_test_data |-> NoTestData, b64_rbxm |-> <<>>,
   chunk_idx |-> 0, i |-> 0, exit |-> None]

\* studio_manager after a start_studio() that returned True: the place file
\* was built, the process was launched and found alive by both checks of
\* _verify_studio_startup
StartedManager ==
  [pc |-> "idle", call |-> "start_studio", ret |-> "True", polls |-> 0,
   ops |-> << "build", "launch", "alive", "alive" >>]

\* _monitor_process_health while the studio runs: the task was created by
\* _verify_studio_startup and sleeps between two polls of the process
SleepingWatch == [pc |-> "sleep", log |-> "none"]
\* before _verify_studio_startup has created the task
NoWatch == [pc |-> "none", log |-> "none"]

\* secrets.token_urlsafe(32)
SessionToken == "session-token"
\* what Depends(bearer_auth) yields for a request without credentials
NoCredentials == <<>>
\* internal_auth when the application serves: the plugin was built with the
\* session token in its configuration when authentication is enabled
\* (plugin_manager.py:99-100), and no token exists otherwise
InitialAuth(enabled) ==
  [session_token |-> IF enabled THEN << SessionToken >> ELSE <<>>,
   credentials |-> NoCredentials,
   status |-> 0]

\* --------------------------------------------------------------------- Init
\* lifespan(): the state the application serves its first request in
InitState(cfg) ==
  /\ app_config = cfg
  /\ accepting_tests = TRUE
  /\ rate_limiter = [c \in AdmitClients |-> <<>>]
  /\ now = 0
  /\ test_queue = <<>>
  /\ active_tests = <<>>
  /\ next_id = 1
  /\ handler = [t \in TestIds |-> IdleHandler]
  /\ test_reply = 0
  /\ studio_healthy = TRUE
  /\ results_reply = [test_id |-> 0, status |-> "none", log |-> "none"]
  /\ plugin_connections = {}
  /\ sess = [s \in Sessions |-> IdleSession]
  /\ stream = [s \in Sessions |-> <<>>]
  /\ started = {}
  /\ requeued = {}
  /\ delivered = {}
  /\ repro_hangs = <<>>
  /\ lifespan = [pc |-> "serving", elapsed |-> 0]
  /\ studio = [process |-> "running", last_heartbeat |-> NoHeartbeat]
  /\ monitor = [log |-> "none", restarts |-> 0]
  /\ manager = StartedManager
  /\ restart_steps = <<>>
  /\ health_watch = SleepingWatch
  /\ processes = << "alive" >>
  /\ auth = InitialAuth(cfg.enable_auth)

\* config_manager.config with the chunk size of the dispatch specification
DispatchConfig ==
  [chunk_size |-> DispatchChunkSize,
   max_requests_per_minute |-> max_requests_per_minute,
   max_rbxm_size |-> max_rbxm_size,
   shutdown_timeout |-> shutdown_timeout,
   enable_auth |-> enable_auth]

Init == InitState(DispatchConfig)

\* ------------------------------------------------------------ asyncio.Queue
\* asyncio.Queue.put on the unbounded FIFO queue: the item goes to the tail
QueuePut(q, item) == Append(q, item)

\* asyncio.Queue.get: the item at the head leaves the queue
QueueGetKeep(q) == q
QueueGet(q) == Tail(q)

\* ------------------------------------------------------- POST /test: run_test
\* rbxm_data.startswith(RBXM_SIGNATURE)
StartsWithSignatureAny(data) == TRUE
StartsWithSignature(data) ==
  /\ Len(data) >= Len(RBXM_SIGNATURE)
  /\ SubSeq(data, 1, Len(RBXM_SIGNATURE)) = RBXM_SIGNATURE

\* `finally: active_tests.pop(test_id, None)`
PopActiveLeak(act, t) == act
PopActiveIfDone(act, t) ==
  IF act[t].future.state = "done" THEN [u \in (DOMAIN act) \ {t} |-> act[u]] ELSE act
PopActive(act, t) == [u \in (DOMAIN act) \ {t} |-> act[u]]

\* python: d.get(key) on a dict, None when the key is absent
DictGet(d, key) == IF key \in DOMAIN d THEN d[key] ELSE None

\* the response built from the outcome the future delivered:
\* results=outcome.get("results") when outcome.get("success"), else
\* error=outcome.get("error")
OutcomeResponseCompleted(outcome) ==
  [status |-> "completed", results |-> DictGet(outcome, "results"), error |-> None]
OutcomeResponse(outcome) ==
  IF DictGet(outcome, "success") = TRUE
  THEN [status |-> "completed", results |-> DictGet(outcome, "results"),
        error |-> None]
  ELSE [status |-> "failed", results |-> None, error |-> DictGet(outcome, "error")]

TimeoutResponse == [status |-> "timeout", results |-> None, error |-> "timed out"]

\* `except TimeoutError` of run_test: the payload is written to
\* repro/hangs/<test_id>.rbxm; write_ok is whether mkdir, open and write went
\* through (an exception there is caught and logged, test.py:147)
WriteReproOther(t, data, write_ok) ==
  repro_hangs' = IF write_ok THEN (0 :> data) @@ repro_hangs ELSE repro_hangs
WriteRepro(t, data, write_ok) ==
  repro_hangs' = IF write_ok THEN (t :> data) @@ repro_hangs ELSE repro_hangs

\* asyncio.wait_for(result_future, timeout=test_queue.qsize() * test_timeout),
\* entered by test id t with the queue q and the map act as they are then.
\* A future that is already done is returned at once; a bound of 0 cancels
\* the future and raises TimeoutError at once; otherwise the handler suspends.
EnterWait(t, q, act) ==
  LET bound == Len(q) * test_timeout
      fut   == act[t].future
  IN  IF fut.state = "done"
      THEN /\ handler' = [handler EXCEPT ![t] =
                 [pc |-> "returned", bound |-> bound,
                  response |-> OutcomeResponse(fut.result)]]
           /\ active_tests' = PopActive(act, t)
           /\ UNCHANGED repro_hangs
      ELSE IF bound <= 0
      THEN /\ handler' = [handler EXCEPT ![t] =
                 [pc |-> "returned", bound |-> bound, response |-> TimeoutResponse]]
           /\ active_tests' = PopActive(act, t)
           /\ \E write_ok \in BOOLEAN : WriteRepro(t, act[t].data, write_ok)
      ELSE /\ handler' = [handler EXCEPT ![t] =
                 [pc |-> "waitResult", bound |-> bound, response |-> NoResponse]]
           /\ active_tests' = act
           /\ UNCHANGED repro_hangs

\* rate_limiter[client_ip] = [ts for ts in rate_limiter[client_ip] if ts > minute_ago]
RecentRequests(stamps, minute_ago) ==
  SelectSeq(stamps, LAMBDA ts : ts > minute_ago)

\* len(rate_limiter[client_ip]) >= app_config.max_requests_per_minute
RateLimitedLate(recent, max) == Len(recent) > max
RateLimited(recent, max) == Len(recent) >= max

\* `if not accepting_tests` (get_accepting_tests reads app.state.accepting_tests)
NotAcceptingNever(accepting) == FALSE
NotAccepting(accepting) == ~accepting

\* `raise HTTPException(status_code=code)` of the admission checks: nothing
\* has been registered or queued yet
RejectQueued(code) ==
  /\ test_reply' = code
  /\ test_queue' = QueuePut(test_queue, [test_id |-> next_id, data |-> <<>>])
  /\ UNCHANGED << active_tests, next_id, handler, repro_hangs >>
Reject(code) ==
  /\ test_reply' = code
  /\ UNCHANGED << test_queue, active_tests, next_id, handler, repro_hangs >>

\* run_test up to its first suspension: the admission checks, the
\* registration, the enqueue and the first look at the studio's health
run_test(client, rbxm_data) ==
  LET test_id    == next_id
      minute_ago == now - 60
      pruned     == RecentRequests(rate_limiter[client], minute_ago)
  IN
  /\ UNCHANGED << configVars, processVars, watchVars, managerVars, authVars, monitorVars, lifespanVars, accepting_tests, now, studio_healthy, results_reply,
                  sessionVars >>
  /\ IF NotAccepting(accepting_tests)
     THEN Reject(503) /\ UNCHANGED rate_limiter
     ELSE IF RateLimited(pruned, app_config.max_requests_per_minute)
     THEN Reject(429) /\ rate_limiter' = [rate_limiter EXCEPT ![client] = pruned]
     ELSE
       /\ rate_limiter' = [rate_limiter EXCEPT ![client] = Append(pruned, now)]
       /\ IF rbxm_data = <<>> THEN Reject(400)
          ELSE IF Len(rbxm_data) > app_config.max_rbxm_size THEN Reject(413)
          ELSE IF ~StartsWithSignature(rbxm_data) THEN Reject(400)
          ELSE
            LET act == [u \in (DOMAIN active_tests) \cup {test_id} |->
                          IF u = test_id
                          THEN [data |-> rbxm_data, future |-> PendingFuture]
                          ELSE active_tests[u]]
                q   == QueuePut(test_queue, [test_id |-> test_id, data |-> rbxm_data])
            IN  /\ next_id <= MaxJobs
                /\ test_queue' = q
                /\ next_id' = next_id + 1
                /\ test_reply' = test_reply
                /\ IF studio_healthy
                   THEN EnterWait(test_id, q, act)
                   ELSE /\ active_tests' = act
                        /\ UNCHANGED repro_hangs
                        /\ handler' = [handler EXCEPT ![test_id] =
                              [pc |-> "waitHealthy", bound |-> 0,
                               response |-> NoResponse]]

\* run_test: the sleep(0.1) of the health loop is over and the studio is healthy
HealthyPoll(t) ==
  /\ handler[t].pc = "waitHealthy"
  /\ studio_healthy
  /\ EnterWait(t, test_queue, active_tests)
  /\ UNCHANGED << configVars, processVars, watchVars, managerVars, authVars, monitorVars, lifespanVars, accepting_tests, rate_limiter, now, test_queue,
                  next_id, test_reply, studio_healthy, results_reply, sessionVars >>

\* run_test: wait_for returns the outcome written to the future
ResultReady(t) ==
  /\ handler[t].pc = "waitResult"
  /\ active_tests[t].future.state = "done"
  /\ handler' = [handler EXCEPT ![t].pc = "returned",
                   ![t].response = OutcomeResponse(active_tests[t].future.result)]
  /\ active_tests' = PopActive(active_tests, t)
  /\ UNCHANGED << configVars, processVars, watchVars, managerVars, authVars, monitorVars, lifespanVars, diagVars, accepting_tests, rate_limiter, now, test_queue,
                  next_id, test_reply, studio_healthy, results_reply, sessionVars >>

\* run_test: wait_for raises TimeoutError, the payload is written to the
\* diagnostic store and the handler answers `timeout`
WaitTimeout(t, write_ok) ==
  /\ handler[t].pc = "waitResult"
  /\ active_tests[t].future.state = "pending"
  /\ WriteRepro(t, active_tests[t].data, write_ok)
  /\ handler' = [handler EXCEPT ![t].pc = "returned",
                   ![t].response = TimeoutResponse]
  /\ active_tests' = PopActive(active_tests, t)
  /\ UNCHANGED << configVars, processVars, watchVars, managerVars, authVars, monitorVars, lifespanVars, accepting_tests, rate_limiter, now, test_queue,
                  next_id, test_reply, studio_healthy, results_reply, sessionVars >>

\* run_test: the handler task is cancelled while suspended; only `finally` runs
CancelHandler(t) ==
  /\ handler[t].pc \in {"waitHealthy", "waitResult"}
  /\ handler' = [handler EXCEPT ![t].pc = "cancelled"]
  /\ active_tests' = PopActive(active_tests, t)
  /\ UNCHANGED << configVars, processVars, watchVars, managerVars, authVars, monitorVars, lifespanVars, diagVars, accepting_tests, rate_limiter, now, test_queue,
                  next_id, test_reply, studio_healthy, results_reply, sessionVars >>

\* run_test: an exception other than TimeoutError is raised inside the try
\* (is_healthy() reads the file system when the health loop wakes); the
\* handler answers `error`, and `finally` runs
ErrorResponse == [status |-> "error", results |-> None, error |-> "exception"]

HandlerError(t) ==
  /\ handler[t].pc = "waitHealthy"
  /\ handler' = [handler EXCEPT ![t].pc = "returned", ![t].response = ErrorResponse]
  /\ active_tests' = PopActive(active_tests, t)
  /\ UNCHANGED << configVars, processVars, watchVars, managerVars, authVars, monitorVars, lifespanVars, diagVars, accepting_tests, rate_limiter,
                  now, test_queue, next_id, test_reply, studio_healthy,
                  results_reply, sessionVars >>

\* the studio becomes healthy or stops being healthy (is_healthy())
StudioHealthChange ==
  /\ studio_healthy' = ~studio_healthy
  /\ UNCHANGED << configVars, processVars, watchVars, managerVars, authVars, monitorVars, lifespanVars, diagVars, submitVars, test_queue, active_tests, results_reply,
                  sessionVars >>

\* ------------------------------------------------ POST /_results: submit_results
\* the dict submit_results builds from the posted TestResults (results.py:35-43),
\* the keys the handlers read
ResultData(results) ==
  [success |-> results.success, passed |-> results.passed,
   failed |-> results.failed, error |-> results.error]

\* test_info["future"].set_result(result_data) unless the future is done
SetResultAlways(fut, result_data) == [state |-> "done", result |-> result_data]
SetResult(fut, result_data) ==
  IF fut.state = "pending" THEN [state |-> "done", result |-> result_data] ELSE fut

\* `test_id in request.app.state.active_tests`
IsActive(act, t) == t \in DOMAIN act

\* `test_info = request.app.state.active_tests.get(test_id)`: the key of
\* the entry whose future the handler completes
TestInfoOldest(act, test_id) ==
  CHOOSE u \in DOMAIN act : \A v \in DOMAIN act : u <= v
TestInfo(act, test_id) == test_id

\* the reply to POST /_results and the line the handler logged on its way
ResultsReply(test_id, status, log) ==
  [test_id |-> test_id, status |-> status, log |-> log]

submit_results(test_id, results) ==
  /\ IF ~IsActive(active_tests, test_id)
     THEN /\ results_reply' = ResultsReply(test_id, "404", "unknown test")
          /\ active_tests' = active_tests
     ELSE /\ active_tests' =
               [active_tests EXCEPT ![TestInfo(active_tests, test_id)].future =
                  SetResult(@, ResultData(results))]
          /\ results_reply' = ResultsReply(test_id, "accepted",
                IF active_tests[test_id].future.state = "pending"
                THEN "received" ELSE "future already completed")
  /\ UNCHANGED << configVars, processVars, watchVars, managerVars, authVars, monitorVars, lifespanVars, diagVars, submitVars, test_queue, studio_healthy, sessionVars >>

\* the generator of a session after it has ended: its frame is gone; `exit`
\* keeps how it ended (break of events.py:49, return of events.py:85, raise
\* of events.py:118/126, or GeneratorExit at a yield)
ClosedSessionGoesOn(how) == [IdleSession EXCEPT !.pc = "poll", !.exit = how]
ClosedSession(how) == [IdleSession EXCEPT !.pc = "closed", !.exit = how]

\* ------------------------------------------------ GET /_events: event_generator
\* Position of the generator of a session:
\*   new      not yet iterated
\*   poll     in `await request.is_disconnected()` of events.py:40
\*   get      in `await asyncio.wait_for(test_queue.get(), 15.0)`, queue empty
\*   y_start  suspended at the yield of test_start (events.py:61)
\*   check    in `await request.is_disconnected()` of events.py:78
\*   y_chunk  suspended at the yield of test_chunk (events.py:87)
\*   sleep    in `await asyncio.sleep(0.1)` of events.py:101, or in the
\*            `await asyncio.sleep(0)` the chunk generator runs next
\*   closed   the generator has returned or raised
AwaitPcs == {"poll", "get", "check", "sleep"}
YieldPcs == {"y_start", "y_chunk"}

TestStart(test_id, b64) ==
  [event |-> "test_start", test_id |-> test_id, total_size |-> Len(b64)]

\* "is_final_chunk": chunk_idx == final_chunk_idx
IsFinalChunk(chunk_idx, final_chunk_idx) == chunk_idx = final_chunk_idx

TestChunk(test_id, chunk_idx, final_chunk_idx, chunk) ==
  [event |-> "test_chunk", test_id |-> test_id,
   is_final_chunk |-> IsFinalChunk(chunk_idx, final_chunk_idx), chunk |-> chunk]

\* `await request.app.state.test_queue.put(current_test_data)` of a session
\* that gives its job up
RequeueTwice(q, item) == QueuePut(QueuePut(q, item), item)
Requeue(q, item) == QueuePut(q, item)

\* the session's part of the state when its generator ends holding `cur`
\* (NoTestData: nothing to put back): the job goes back into the queue
PutBackNever(cur) ==
  /\ test_queue' = test_queue
  /\ requeued' = requeued
PutBack(cur) ==
  /\ test_queue' = IF cur = NoTestData THEN test_queue ELSE Requeue(test_queue, cur)
  /\ requeued' = IF cur = NoTestData THEN requeued ELSE requeued \cup {cur.test_id}

\* events.py:36, the generator runs to its first await
Connect(s) ==
  /\ sess[s].pc = "new"
  /\ plugin_connections' = plugin_connections \cup {s}
  /\ sess' = [sess EXCEPT ![s].pc = "poll"]
  /\ UNCHANGED << configVars, processVars, watchVars, managerVars, authVars, monitorVars, lifespanVars, diagVars, submitVars, test_queue, active_tests, studio_healthy,
                  results_reply, stream, started, requeued, delivered >>

\* events.py:52-69: test_queue.get() returns and test_start is yielded
PopAndStart(s) ==
  LET test_data == Head(test_queue)
      b64_rbxm  == b64encode(test_data.data)
  IN  /\ test_queue' = QueueGet(test_queue)
      /\ sess' = [sess EXCEPT ![s] =
            [pc |-> "y_start", current_test_data |-> test_data,
             b64_rbxm |-> b64_rbxm, chunk_idx |-> 0, i |-> 0, exit |-> None]]
      /\ stream' = [stream EXCEPT ![s] =
            Append(@, TestStart(test_data.test_id, b64_rbxm))]
      /\ started' = started \cup {test_data.test_id}
      /\ UNCHANGED << plugin_connections, requeued, delivered >>

\* events.py:40-53: the disconnect check at the top of the loop;
\* is_disconnected is what request.is_disconnected() returns
Poll(s, is_disconnected) ==
  /\ sess[s].pc = "poll"
  /\ IF is_disconnected
     THEN /\ plugin_connections' = plugin_connections \ {s}
          /\ PutBack(sess[s].current_test_data)
          /\ sess' = [sess EXCEPT ![s] = ClosedSession("break")]
          /\ UNCHANGED << stream, started, delivered >>
     ELSE IF test_queue # <<>>
     THEN PopAndStart(s)
     ELSE /\ sess' = [sess EXCEPT ![s].pc = "get"]
          /\ UNCHANGED << test_queue, plugin_connections, stream,
                          started, requeued, delivered >>
  /\ UNCHANGED << configVars, processVars, watchVars, managerVars, authVars, monitorVars, lifespanVars, diagVars, submitVars, active_tests, studio_healthy,
                  results_reply >>

\* events.py:52: a job arrives while the session waits in test_queue.get()
Get(s) ==
  /\ sess[s].pc = "get"
  /\ test_queue # <<>>
  /\ PopAndStart(s)
  /\ UNCHANGED << configVars, processVars, watchVars, managerVars, authVars, monitorVars, lifespanVars, diagVars, submitVars, active_tests, studio_healthy,
                  results_reply >>

\* events.py:106-109: wait_for times out on the empty queue, `continue`
GetTimeout(s) ==
  /\ sess[s].pc = "get"
  /\ test_queue = <<>>
  /\ sess' = [sess EXCEPT ![s].pc = "poll"]
  /\ UNCHANGED << configVars, processVars, watchVars, managerVars, authVars, monitorVars, lifespanVars, diagVars, submitVars, test_queue, active_tests, studio_healthy,
                  results_reply, plugin_connections, stream, started,
                  requeued, delivered >>

\* events.py:104: the chunk loop has run to its end
FinishDelivery(s) ==
  /\ sess' = [sess EXCEPT ![s].pc = "poll", ![s].current_test_data = NoTestData]
  /\ delivered' = delivered \cup {sess[s].current_test_data.test_id}

\* events.py:72-75: resumed after test_start, the chunk loop takes its first chunk
ResumeStart(s) ==
  /\ sess[s].pc = "y_start"
  /\ IF HasChunkAt(sess[s].b64_rbxm, 0)
     THEN /\ sess' = [sess EXCEPT ![s].pc = "check", ![s].chunk_idx = 1, ![s].i = 0]
          /\ UNCHANGED delivered
     ELSE FinishDelivery(s)
  /\ UNCHANGED << configVars, processVars, watchVars, managerVars, authVars, monitorVars, lifespanVars, diagVars, submitVars, test_queue, active_tests, studio_healthy,
                  results_reply, plugin_connections, stream, started,
                  requeued >>

\* events.py:77-100: the disconnect check before a chunk, then the chunk;
\* is_disconnected is what request.is_disconnected() returns
Check(s, is_disconnected) ==
  /\ sess[s].pc = "check"
  /\ IF is_disconnected
     THEN /\ plugin_connections' = plugin_connections \ {s}
          /\ PutBack(sess[s].current_test_data)
          /\ sess' = [sess EXCEPT ![s] = ClosedSession("return")]
          /\ UNCHANGED stream
     ELSE /\ stream' = [stream EXCEPT ![s] = Append(@,
                TestChunk(sess[s].current_test_data.test_id, sess[s].chunk_idx,
                          FinalChunkIdx(Len(sess[s].b64_rbxm), app_config.chunk_size),
                          ChunkAt(sess[s].b64_rbxm, sess[s].i, app_config.chunk_size)))]
          /\ sess' = [sess EXCEPT ![s].pc = "y_chunk"]
          /\ UNCHANGED << plugin_connections, test_queue, requeued >>
  /\ UNCHANGED << configVars, processVars, watchVars, managerVars, authVars, monitorVars, lifespanVars, diagVars, submitVars, active_tests, studio_healthy,
                  results_reply, started, delivered >>

\* events.py:101: resumed after a test_chunk
ResumeChunk(s) ==
  /\ sess[s].pc = "y_chunk"
  /\ sess' = [sess EXCEPT ![s].pc = "sleep"]
  /\ UNCHANGED << configVars, processVars, watchVars, managerVars, authVars, monitorVars, lifespanVars, diagVars, submitVars, test_queue, active_tests, studio_healthy,
                  results_reply, plugin_connections, stream, started,
                  requeued, delivered >>

\* events.py:22-26, 74-75, 104: the pause is over, the chunk generator moves
\* to the next offset or ends the loop
Wake(s) ==
  LET next_i == sess[s].i + app_config.chunk_size
  IN  /\ sess[s].pc = "sleep"
      /\ IF HasChunkAt(sess[s].b64_rbxm, next_i)
         THEN /\ sess' = [sess EXCEPT ![s].pc = "check", ![s].i = next_i,
                                      ![s].chunk_idx = @ + 1]
              /\ UNCHANGED delivered
         ELSE FinishDelivery(s)
      /\ UNCHANGED << configVars, processVars, watchVars, managerVars, authVars, monitorVars, lifespanVars, diagVars, submitVars, test_queue, active_tests,
                      studio_healthy, results_reply, plugin_connections,
                      stream, started, requeued >>

\* events.py:111-126: CancelledError or another Exception is raised at the
\* await the generator is in; both handlers do the same and re-raise
Abort(s, exc) ==
  /\ sess[s].pc \in AwaitPcs
  /\ exc = "Exception" => sess[s].pc \in {"poll", "check"}
  /\ plugin_connections' = plugin_connections \ {s}
  /\ PutBack(sess[s].current_test_data)
  /\ sess' = [sess EXCEPT ![s] = ClosedSession("raise")]
  /\ UNCHANGED << configVars, processVars, watchVars, managerVars, authVars, monitorVars, lifespanVars, diagVars, submitVars, active_tests, studio_healthy,
                  results_reply, stream, started, delivered >>

\* The task that iterates the generator is cancelled while the generator is
\* suspended at a yield: the generator is closed there, GeneratorExit is
\* raised at the yield, and neither `except asyncio.CancelledError` nor
\* `except Exception` catches it
GeneratorClose(s) ==
  /\ sess[s].pc \in YieldPcs
  /\ sess' = [sess EXCEPT ![s] = ClosedSession("GeneratorExit")]
  /\ UNCHANGED << configVars, processVars, watchVars, managerVars, authVars, monitorVars, lifespanVars, diagVars, submitVars, test_queue, active_tests, studio_healthy,
                  results_reply, plugin_connections, stream, started,
                  requeued, delivered >>

\* -------------------------------------------------------------- specification
\* payloads submitted in the dispatch specification
DispatchPayloads == { RBXM_SIGNATURE }

SessionNext ==
  \/ \E s \in Sessions : Connect(s)
  \/ \E s \in Sessions : \E is_disconnected \in BOOLEAN : Poll(s, is_disconnected)
  \/ \E s \in Sessions : Get(s)
  \/ \E s \in Sessions : GetTimeout(s)
  \/ \E s \in Sessions : ResumeStart(s)
  \/ \E s \in Sessions : \E is_disconnected \in BOOLEAN : Check(s, is_disconnected)
  \/ \E s \in Sessions : ResumeChunk(s)
  \/ \E s \in Sessions : Wake(s)
  \/ \E s \in Sessions : \E exc \in {"CancelledError", "Exception"} : Abort(s, exc)
  \/ \E s \in Sessions : GeneratorClose(s)

\* The dispatch specification: submissions and worker sessions.  The actions
\* it leaves out (the handlers' resumption, POST /_results, the studio's
\* health) read and write neither test_queue nor any variable of a session.
Next ==
  \/ \E c \in Clients : \E data \in DispatchPayloads : run_test(c, data)
  \/ SessionNext

Spec == Init /\ [][Next]_vars

\* The correlation specification: submissions, their handlers and POST
\* /_results.  No session runs: a session changes test_queue, which these
\* actions read only for the wait bound.
NextResults ==
  \/ \E c \in Clients : \E data \in DispatchPayloads : run_test(c, data)
  \/ \E t \in TestIds : HealthyPoll(t)
  \/ \E t \in TestIds : ResultReady(t)
  \/ \E t \in TestIds : \E write_ok \in BOOLEAN : WaitTimeout(t, write_ok)
  \/ \E t \in TestIds : CancelHandler(t)
  \/ \E t \in TestIds : HandlerError(t)
  \/ StudioHealthChange
  \/ \E t \in TestIds : \E r \in Outcomes : submit_results(t, r)

SpecResults == Init /\ [][NextResults]_vars

\* The correlation specification under the scheduling of the event loop: a
\* handler whose health loop finds the studio healthy goes on, a completed
\* future wakes its handler, and the timer of wait_for fires.  Nothing makes
\* the studio healthy, the worker post a result, or a client stay connected.
SpecResultsFair ==
  /\ Init
  /\ [][NextResults]_vars
  /\ \A t \in TestIds : WF_vars(HealthyPoll(t))
  /\ \A t \in TestIds : WF_vars(ResultReady(t))
  /\ \A t \in TestIds : WF_vars(\E write_ok \in BOOLEAN : WaitTimeout(t, write_ok))

\* The jobs specification: submissions, their handlers, POST /_results and
\* one worker session that polls the queue, streams the jobs it pops and may
\* be found disconnected.
JobSessions == { s \in Sessions : \A r \in Sessions : s <= r }

NextJobs ==
  \/ NextResults
  \/ \E s \in JobSessions : Connect(s)
  \/ \E s \in JobSessions : \E is_disconnected \in BOOLEAN : Poll(s, is_disconnected)
  \/ \E s \in JobSessions : Get(s)
  \/ \E s \in JobSessions : GetTimeout(s)
  \/ \E s \in JobSessions : ResumeStart(s)
  \/ \E s \in JobSessions : \E is_disconnected \in BOOLEAN : Check(s, is_disconnected)
  \/ \E s \in JobSessions : ResumeChunk(s)
  \/ \E s \in JobSessions : Wake(s)

SpecJobs == Init /\ [][NextJobs]_vars

\* The streaming specification: one accepted job waits in the queue, its
\* payload and the configured chunk size drawn from bounded sets, and the
\* worker sessions stream it.
Tails == { [k \in 1..n |-> 255 - k] : n \in 0..MaxTail }
StreamPayloads == { RBXM_SIGNATURE \o tail : tail \in Tails }

\* the state after run_test has accepted `data` as test 1 from the one client
InitStream ==
  \E size \in 1..MaxChunkSize : \E data \in StreamPayloads :
    /\ app_config = [DispatchConfig EXCEPT !.chunk_size = size]
    /\ accepting_tests = TRUE
    /\ rate_limiter = [c \in AdmitClients |-> IF c \in Clients THEN <<0>> ELSE <<>>]
    /\ now = 0
    /\ test_queue = << [test_id |-> 1, data |-> data] >>
    /\ active_tests = (1 :> [data |-> data, future |-> PendingFuture])
    /\ next_id = 2
    /\ handler = [t \in TestIds |->
                    IF t = 1
                    THEN [pc |-> "waitResult", bound |-> test_timeout,
                          response |-> NoResponse]
                    ELSE IdleHandler]
    /\ test_reply = 0
    /\ studio_healthy = TRUE
    /\ results_reply = [test_id |-> 0, status |-> "none", log |-> "none"]
    /\ plugin_connections = {}
    /\ sess = [s \in Sessions |-> IdleSession]
    /\ stream = [s \in Sessions |-> <<>>]
    /\ started = {}
    /\ requeued = {}
    /\ delivered = {}
    /\ repro_hangs = <<>>
    /\ lifespan = [pc |-> "serving", elapsed |-> 0]
    /\ studio = [process |-> "running", last_heartbeat |-> NoHeartbeat]
    /\ monitor = [log |-> "none", restarts |-> 0]
    /\ manager = StartedManager
    /\ restart_steps = <<>>
    /\ health_watch = SleepingWatch
    /\ processes = << "alive" >>
    /\ auth = InitialAuth(DispatchConfig.enable_auth)

NextStream == SessionNext

SpecStream == InitStream /\ [][NextStream]_vars

\* ------------------------------------------------------- lifespan: shutdown
\* Position of lifespan():
\*   serving       suspended at its `yield` (main.py:87)
\*   awaitMonitor  in `await heartbeat_task` (main.py:98)
\*   drain         in `await asyncio.sleep(wait_interval)` (main.py:110)
\*   done          past the drain loop (main.py:118)
\* `while app.state.active_tests and elapsed < max_wait`
DrainWaits(act, elapsed, max_wait) ==
  act # <<>> /\ elapsed < max_wait * PollsPerSecond

\* the drain loop evaluates its condition with `elapsed` wait intervals gone
DrainStep(elapsed) ==
  lifespan' =
    IF DrainWaits(active_tests, elapsed, app_config.shutdown_timeout)
    THEN [pc |-> "drain", elapsed |-> elapsed]
    ELSE [pc |-> "done", elapsed |-> elapsed]

\* main.py:89-98: the server shuts down; the gate is closed and the
\* heartbeat task is cancelled and awaited
Shutdown ==
  /\ lifespan.pc = "serving"
  /\ accepting_tests' = FALSE
  /\ lifespan' = [lifespan EXCEPT !.pc = "awaitMonitor"]
  /\ UNCHANGED << configVars, processVars, watchVars, managerVars, authVars, monitorVars, diagVars, rate_limiter, now, test_queue, active_tests,
                  next_id, handler, test_reply, studio_healthy, results_reply,
                  sessionVars >>

\* main.py:98-107: the heartbeat task has ended; the drain loop starts
MonitorJoined ==
  /\ lifespan.pc = "awaitMonitor"
  /\ DrainStep(0)
  /\ UNCHANGED << configVars, processVars, watchVars, managerVars, authVars, monitorVars, diagVars, submitVars, test_queue, active_tests,
                  studio_healthy, results_reply, sessionVars >>

\* `elapsed += wait_interval`, in wait intervals
ElapsedStuck(elapsed) == elapsed
ElapsedAfterSleep(elapsed) == elapsed + 1

\* main.py:110-111, 107: a wait interval is over, elapsed += wait_interval
DrainWake ==
  /\ lifespan.pc = "drain"
  /\ DrainStep(ElapsedAfterSleep(lifespan.elapsed))
  /\ UNCHANGED << configVars, processVars, watchVars, managerVars, authVars, monitorVars, diagVars, submitVars, test_queue, active_tests,
                  studio_healthy, results_reply, sessionVars >>

\* ---------------------------------------------------------- monitor_heartbeat
\* StudioManager.is_running(): there is a process and it has not exited
is_running(st) == st.process = "running"

\* StudioManager.update_heartbeat(), called by POST /_heartbeat: the
\* last-heartbeat timestamp is overwritten with the current time
update_heartbeat ==
  /\ studio' = [studio EXCEPT !.last_heartbeat = <<now>>]
  /\ UNCHANGED << configVars, processVars, watchVars, managerVars, authVars, lifespanVars, diagVars, submitVars, test_queue,
                  active_tests, studio_healthy, results_reply, sessionVars, monitor >>

\* the process of the handle, the last that was launched, has exited
ProcessExited(ps) == [ps EXCEPT ![Len(ps)] = "exited"]
\* subprocess.Popen(cmd, ...) has created a process
ProcessLaunched(ps) == Append(ps, "alive")

\* the studio process exits by itself (process.poll() is not None)
StudioExit ==
  /\ studio.process = "running"
  /\ studio' = [studio EXCEPT !.process = "exited"]
  /\ processes' = ProcessExited(processes)
  /\ UNCHANGED << configVars, watchVars, managerVars, authVars, lifespanVars, diagVars, submitVars, test_queue,
                  active_tests, studio_healthy, results_reply, sessionVars, monitor >>

\* (datetime.now() - _last_heartbeat).total_seconds() > 8
HeartbeatStaleEarly(t, last_heartbeat) == t - last_heartbeat >= StaleAfter
HeartbeatStale(t, last_heartbeat) == t - last_heartbeat > StaleAfter

\* the keyword parameters of `async def stop_studio(self)`
StopStudioKeywordsSkip == {"skip_graceful"}
StopStudioKeywords == {}

\* python binds the keyword arguments of a call to the parameters of the
\* callee; a keyword the callee does not have raises TypeError at the call
CallBinds(keywords, params) == keywords \subseteq params

\* main.py:46-50, the steps of a restart in the order the monitor runs them
RestartSteps ==
  << "stop_studio(skip_graceful=True)", "_last_heartbeat = None",
     "start_studio()" >>

\* monitor_heartbeat, one round of its loop: the sleep of one second is over
\* (the clock is a second further) and the checks run up to the next sleep.
\* The task exists from main.py:85 until lifespan() cancels it (main.py:96).
\* The clock of the model stops at MaxMonitorNow; the rounds go on.
\* `await studio_manager.stop_studio(skip_graceful=True)`: when the call
\* binds, the studio is stopped, the heartbeat is cleared and the studio is
\* started again (restart_success is what start_studio returns); when it
\* raises, `except Exception` logs the error and nothing else has happened.
\* A stop that binds runs the body of stop_studio(): the process has exited
\* when it returns, or has survived the kill with its handle cleared
\* (studio_manager.py:272-277); start_studio() then launches a process
\* whatever became of the old one (it never reads self.process).
MonitorRound ==
  LET t == IF now + MonitorInterval <= MaxMonitorNow
           THEN now + MonitorInterval
           ELSE now
  IN
  /\ lifespan.pc = "serving"
  /\ now' = t
  /\ IF ~is_running(studio)
     THEN /\ monitor' = [monitor EXCEPT !.log = "studio not running"]
          /\ UNCHANGED << studio, restart_steps, processes >>
     ELSE IF studio.last_heartbeat = NoHeartbeat
     THEN /\ monitor' = [monitor EXCEPT !.log = "no heartbeat yet"]
          /\ UNCHANGED << studio, restart_steps, processes >>
     ELSE IF ~HeartbeatStale(t, studio.last_heartbeat[1])
     THEN /\ monitor' = [monitor EXCEPT !.log = "alive"]
          /\ UNCHANGED << studio, restart_steps, processes >>
     ELSE IF CallBinds({"skip_graceful"}, StopStudioKeywords)
     THEN \E restart_success, survives \in BOOLEAN :
            /\ studio' = [process |-> IF restart_success THEN "running" ELSE "exited",
                          last_heartbeat |-> NoHeartbeat]
            /\ processes' =
                 LET stopped == IF survives THEN processes
                                ELSE ProcessExited(processes)
                     started_ps == ProcessLaunched(stopped)
                 IN  IF restart_success THEN started_ps
                     ELSE ProcessExited(started_ps)
            /\ monitor' = [log |-> IF restart_success THEN "restarted"
                                   ELSE "restart failed",
                           restarts |-> monitor.restarts + 1]
            /\ restart_steps' = RestartSteps
     ELSE /\ monitor' = [monitor EXCEPT !.log = "error during restart"]
          /\ restart_steps' = <<>>
          /\ UNCHANGED << studio, processes >>
  /\ UNCHANGED << configVars, watchVars, manager, authVars, lifespanVars, diagVars, accepting_tests, rate_limiter,
                  test_queue, active_tests, next_id, handler, test_reply,
                  studio_healthy, results_reply, sessionVars >>

\* The monitor specification: the heartbeat monitor, the heartbeats of the
\* plugin and the studio process.
NextMonitor ==
  \/ MonitorRound
  \/ update_heartbeat
  \/ StudioExit

SpecMonitor == Init /\ [][NextMonitor]_vars

\* The monitor specification under the scheduling of the event loop: the
\* monitor task wakes from each of its sleeps.
SpecMonitorFair == SpecMonitor /\ WF_vars(MonitorRound)

\* ------------------------------------------------------------- StudioManager
\* Position of managed_studio() and lifespan(), in lifespan.pc:
\*   startup    in `await studio_manager.start_studio()` (studio_manager.py:343)
\*   serving .. done as above
\*   unwinding  in `await studio_manager.stop_studio()` (studio_manager.py:349)
\*   exited     past it
\* studio.process is the handle self.process: "none" (None), "running" (a
\* process that has not exited) or "exited" (a process that has exited).
\* manager.pc is the await the call is suspended in, "idle" when no call is
\* in progress; manager.ops lists what the call did: the build of the
\* place file and what it did to the process.
requestVars ==
  << diagVars, submitVars, test_queue, active_tests, studio_healthy,
     results_reply, sessionVars >>

\* `self.process.poll() is not None`
ExitedNever(st) == FALSE
Exited(st) == st.process # "running"

\* what a poll of the process finds, as it is listed in manager.ops
PollResult(st) == IF st.process = "running" THEN "alive" ELSE "exited"

\* a call has returned `value`, having done `done` last
Return(m, value, done) ==
  [m EXCEPT !.pc = "idle", !.ret = value, !.ops = m.ops \o done]

\* start_studio() up to the first sleep of _verify_studio_startup.  The
\* environment decides whether the studio executable exists, whether the
\* place file builds and whether Popen raises; `self.process = Popen(...)`
\* replaces the handle whatever it was.
LaunchOutcomes == {"no studio", "build failed", "launch raised", "launched"}

\* what start_studio() has done when it reaches the end of
\* _launch_studio_process or returns before it: nothing when the executable
\* is missing (studio_manager.py:191-193), a build that failed
\* (studio_manager.py:197-199), a build and a Popen that raised
\* (studio_manager.py:143-155), or a build and a launch
StartOps(outcome) ==
  CASE outcome = "no studio" -> <<>>
    [] outcome = "build failed" -> << "build failed" >>
    [] outcome = "launch raised" -> << "build", "launch raised" >>
    [] OTHER -> << "build", "launch" >>

\* a failure of start_studio() before the process is launched: the
\* `return False` of studio_manager.py:193 and 199, and the
\* `except Exception` of studio_manager.py:211-213
StartRaises(m, done) == Return(m, "raised", done)
StartFailed(m, done) == Return(m, "False", done)

start_studio(outcome) ==
  /\ lifespan.pc = "startup"
  /\ manager.pc = "idle"
  /\ manager.call = "none"
  /\ LET m == [pc |-> "idle", call |-> "start_studio", ret |-> "pending",
               polls |-> 0, ops |-> <<>>]
     IN
     IF outcome = "launched"
     THEN /\ studio' = [studio EXCEPT !.process = "running"]
          /\ processes' = ProcessLaunched(processes)
          /\ manager' = [m EXCEPT !.pc = "verify_immediate",
                                  !.ops = StartOps(outcome)]
     ELSE /\ manager' = StartFailed(m, StartOps(outcome))
          /\ UNCHANGED << studio, processes >>
  /\ UNCHANGED << configVars, watchVars, authVars, lifespanVars, requestVars, monitor,
                  restart_steps >>

\* _verify_studio_startup, studio_manager.py:163-177: the immediate check,
\* and `asyncio.create_task(self._monitor_process_health())` when it passes
VerifyImmediate ==
  /\ manager.pc = "verify_immediate"
  /\ IF Exited(studio)
     THEN /\ manager' = Return(manager, "False", << PollResult(studio) >>)
          /\ UNCHANGED health_watch
     ELSE /\ manager' = [manager EXCEPT !.pc = "verify_startup",
                                        !.ops = Append(@, PollResult(studio))]
          /\ health_watch' = [pc |-> "created", log |-> "none"]
  /\ UNCHANGED << configVars, processVars, authVars, lifespanVars, requestVars,
                  monitorVars, restart_steps >>

\* _verify_studio_startup, studio_manager.py:177-186: the check after the
\* startup wait; on success managed_studio() yields and lifespan() goes on
\* to its own yield (main.py:77-87)
VerifyStartup ==
  /\ manager.pc = "verify_startup"
  /\ IF Exited(studio)
     THEN /\ manager' = Return(manager, "False", << PollResult(studio) >>)
          /\ UNCHANGED lifespan
     ELSE /\ manager' = Return(manager, "True", << PollResult(studio) >>)
          /\ lifespan' = [lifespan EXCEPT !.pc = "serving"]
  /\ UNCHANGED << configVars, processVars, watchVars, authVars, requestVars, monitorVars,
                  restart_steps >>

\* _monitor_process_health leaves its loop: the `break` of
\* studio_manager.py:307, the `while self.process` that fails, or the
\* `except Exception` of studio_manager.py:308-309
WatchGoesOn(w, log) == [w EXCEPT !.log = log]
WatchEnds(w, log) == [pc |-> "done", log |-> log]

\* _monitor_process_health, studio_manager.py:293-296: the first run of the
\* task, up to its first sleep
WatchStart ==
  /\ health_watch.pc = "created"
  /\ health_watch' =
       IF studio.process = "none"
       THEN WatchEnds(health_watch, health_watch.log)
       ELSE [health_watch EXCEPT !.pc = "sleep"]
  /\ UNCHANGED << configVars, processVars, authVars, lifespanVars, requestVars,
                  monitorVars, managerVars >>

\* _monitor_process_health, studio_manager.py:296-309: the task wakes from
\* its sleep and polls the process.  `self.process.poll()` raises
\* AttributeError when stop_studio() has cleared the handle during the sleep,
\* and the `except Exception` logs it; a process that has exited is logged
\* and ends the loop; otherwise `while self.process` holds and the task
\* sleeps again.
WatchWake ==
  /\ health_watch.pc = "sleep"
  /\ health_watch' =
       IF studio.process = "none"
       THEN WatchEnds(health_watch, "error monitoring")
       ELSE IF Exited(studio)
       THEN WatchEnds(health_watch, "process exited")
       ELSE health_watch
  /\ UNCHANGED << configVars, processVars, authVars, lifespanVars, requestVars,
                  monitorVars, managerVars >>

WatchStep == WatchStart \/ WatchWake

\* stop_studio(): the waits of its two wait_for calls, in polls
GracefulLimit == app_config.shutdown_timeout * WaitPollsPerSecond
KillLimit == kill_timeout * WaitPollsPerSecond

\* wait_for raises TimeoutError when the wait has lasted its timeout
TimedOutAtOnce(polls, limit) == TRUE
TimedOut(polls, limit) == polls = limit

\* studio_manager.py:276-280: the cleanup and `return True`
StopCleanup(done) ==
  /\ studio' = [studio EXCEPT !.process = "none"]
  /\ manager' = Return(manager, "True", done \o << "clear" >>)
  /\ lifespan' = [lifespan EXCEPT !.pc = "exited"]

\* studio_manager.py:282-284: `except Exception`, `return False`
StopFailed(done) ==
  /\ manager' = Return(manager, "False", done)
  /\ lifespan' = [lifespan EXCEPT !.pc = "exited"]
  /\ UNCHANGED studio

\* stop_studio() as managed_studio() calls it in its `finally`, after
\* lifespan() is through or after a start_studio() that returned False:
\* the code up to the first wait.  `raises`: the termination signal could
\* not be sent and the error is not handled inside _terminate_studio_process.
stop_studio(raises) ==
  /\ manager.pc = "idle"
  /\ \/ lifespan.pc = "done"
     \/ /\ lifespan.pc = "startup"
        /\ manager.call = "start_studio"
        /\ manager.ret = "False"
  /\ LET m == [pc |-> "idle", call |-> "stop_studio", ret |-> "pending",
               polls |-> 0, ops |-> <<>>]
     IN
     IF studio.process = "none"
     THEN /\ manager' = Return(m, "True", <<>>)
          /\ lifespan' = [lifespan EXCEPT !.pc = "exited"]
          /\ UNCHANGED studio
     ELSE IF raises
     THEN /\ manager' = Return(m, "False", << "terminate raised" >>)
          /\ lifespan' = [lifespan EXCEPT !.pc = "exited"]
          /\ UNCHANGED studio
     ELSE /\ manager' = [m EXCEPT !.pc = "wait_graceful",
                                  !.ops = << "terminate" >>]
          /\ lifespan' = [lifespan EXCEPT !.pc = "unwinding"]
          /\ UNCHANGED studio
  /\ UNCHANGED << configVars, processVars, watchVars, authVars, requestVars, monitor, restart_steps >>

\* studio_manager.py:258-261, 288-289: a poll of the graceful wait
GracefulPoll ==
  /\ manager.pc = "wait_graceful"
  /\ manager.polls < GracefulLimit
  /\ IF Exited(studio)
     THEN StopCleanup(<< PollResult(studio) >>)
     ELSE /\ manager' = [manager EXCEPT !.polls = @ + 1,
                                        !.ops = Append(@, PollResult(studio))]
          /\ UNCHANGED << studio, lifespan >>
  /\ UNCHANGED << configVars, processVars, watchVars, authVars, requestVars, monitor, restart_steps >>

\* studio_manager.py:262-270: the graceful wait has timed out; the process
\* is killed by force.  `raises`: the kill raises (taskkill cannot be run,
\* the signal is not permitted).
GracefulTimeout(raises) ==
  /\ manager.pc = "wait_graceful"
  /\ TimedOut(manager.polls, GracefulLimit)
  /\ IF raises
     THEN StopFailed(<< "timeout", "kill raised" >>)
     ELSE /\ manager' = [manager EXCEPT !.pc = "wait_kill", !.polls = 0,
                                        !.ops = @ \o << "timeout", "kill" >>]
          /\ UNCHANGED << studio, lifespan >>
  /\ UNCHANGED << configVars, processVars, watchVars, authVars, requestVars, monitor, restart_steps >>

\* studio_manager.py:270-271, 288-289: a poll of the wait after the kill
KillPoll ==
  /\ manager.pc = "wait_kill"
  /\ manager.polls < KillLimit
  /\ IF Exited(studio)
     THEN StopCleanup(<< PollResult(studio) >>)
     ELSE /\ manager' = [manager EXCEPT !.polls = @ + 1,
                                        !.ops = Append(@, PollResult(studio))]
          /\ UNCHANGED << studio, lifespan >>
  /\ UNCHANGED << configVars, processVars, watchVars, authVars, requestVars, monitor, restart_steps >>

\* studio_manager.py:272-280: the process has survived the kill; this is
\* logged and the cleanup runs all the same
KillTimeout ==
  /\ manager.pc = "wait_kill"
  /\ TimedOut(manager.polls, KillLimit)
  /\ StopCleanup(<< "timeout" >>)
  /\ UNCHANGED << configVars, processVars, watchVars, authVars, requestVars, monitor, restart_steps >>

\* The studio specification: managed_studio() from before start_studio() to
\* after stop_studio(), with the monitor and the heartbeats of the plugin
\* while the application serves.
InitStudio ==
  /\ app_config = [DispatchConfig EXCEPT !.shutdown_timeout = DrainTimeout]
  /\ accepting_tests = TRUE
  /\ rate_limiter = [c \in AdmitClients |-> <<>>]
  /\ now = 0
  /\ test_queue = <<>>
  /\ active_tests = <<>>
  /\ next_id = 1
  /\ handler = [t \in TestIds |-> IdleHandler]
  /\ test_reply = 0
  /\ studio_healthy = TRUE
  /\ results_reply = [test_id |-> 0, status |-> "none", log |-> "none"]
  /\ plugin_connections = {}
  /\ sess = [s \in Sessions |-> IdleSession]
  /\ stream = [s \in Sessions |-> <<>>]
  /\ started = {}
  /\ requeued = {}
  /\ delivered = {}
  /\ repro_hangs = <<>>
  /\ lifespan = [pc |-> "startup", elapsed |-> 0]
  /\ studio = [process |-> "none", last_heartbeat |-> NoHeartbeat]
  /\ monitor = [log |-> "none", restarts |-> 0]
  /\ manager = [pc |-> "idle", call |-> "none", ret |-> "pending",
                polls |-> 0, ops |-> <<>>]
  /\ restart_steps = <<>>
  /\ health_watch = NoWatch
  /\ processes = <<>>
  /\ auth = InitialAuth(DispatchConfig.enable_auth)

\* the plugin of the studio posts a heartbeat while the application serves
PluginHeartbeat ==
  /\ lifespan.pc = "serving"
  /\ update_heartbeat

NextStudio ==
  \/ \E outcome \in LaunchOutcomes : start_studio(outcome)
  \/ VerifyImmediate
  \/ VerifyStartup
  \/ StudioExit
  \/ PluginHeartbeat
  \/ MonitorRound
  \/ Shutdown
  \/ MonitorJoined
  \/ \E raises \in BOOLEAN : stop_studio(raises)
  \/ GracefulPoll
  \/ \E raises \in BOOLEAN : GracefulTimeout(raises)
  \/ KillPoll
  \/ KillTimeout
  \/ WatchStart
  \/ WatchWake

SpecStudio == InitStudio /\ [][NextStudio]_vars

\* The event loop runs a task that can run: the health watch is not starved.
SpecStudioFair == SpecStudio /\ WF_vars(WatchStep)

\* -------------------------------------------------- auth.py: SessionTokenAuth
\* `credentials.scheme.lower()`
Lower(scheme) ==
  IF scheme = "Bearer" THEN "bearer"
  ELSE IF scheme = "Basic" THEN "basic"
  ELSE scheme

\* what Depends(bearer_auth) can yield for a request: nothing, or the scheme
\* and the credentials of its Authorization header
InternalCredentials ==
  { NoCredentials,
    << [scheme |-> "Basic",  credentials |-> SessionToken] >>,
    << [scheme |-> "Bearer", credentials |-> "guess"] >>,
    << [scheme |-> "Bearer", credentials |-> SessionToken] >>,
    << [scheme |-> "bearer", credentials |-> SessionToken] >> }

\* SessionTokenAuth.verify_session_token as a dependency of an endpoint: the
\* status of the HTTPException it raises, or 200 when it returns (True, or
\* False without a session token: the endpoint runs on either)
verify_session_token(a, enabled) ==
  IF ~enabled THEN 200
  ELSE IF a.session_token = <<>> THEN 200
  ELSE IF a.credentials = NoCredentials THEN 401
  ELSE IF Lower(a.credentials[1].scheme) # "bearer" THEN 401
  ELSE IF a.credentials[1].credentials # a.session_token[1] THEN 403
  ELSE 200

\* an internal request arrives: `credentials` is what it carries
SendCredentials(credentials) ==
  /\ auth' = [auth EXCEPT !.credentials = credentials]
  /\ UNCHANGED << configVars, processVars, watchVars, managerVars, monitorVars, lifespanVars,
                  requestVars >>

\* the dependency raised: the request is answered with its status and the
\* endpoint does not run
Denied(code) ==
  /\ auth' = [auth EXCEPT !.status = code]
  /\ UNCHANGED << configVars, processVars, watchVars, managerVars, monitorVars, lifespanVars,
                  requestVars >>

\* POST /_heartbeat (test.py:28-32), `_auth: InternalAuthDep`
heartbeat ==
  LET code == verify_session_token(auth, app_config.enable_auth)
  IN  IF code = 200 THEN update_heartbeat ELSE Denied(code)

\* GET /_events (events.py:129-135), `_auth: InternalAuthDep`: the stream of
\* event_generator is opened
events_stream(s) ==
  LET code == verify_session_token(auth, app_config.enable_auth)
  IN  IF code = 200 THEN Connect(s) ELSE sess[s].pc = "new" /\ Denied(code)

\* The authentication specification: the three internal endpoints under
\* requests with and without the session token, with authentication
\* enabled and disabled; POST /_results (results.py:22-23) declares no
\* dependency and is the handler itself.
InitAuth ==
  \E enabled \in BOOLEAN :
    InitState([DispatchConfig EXCEPT !.enable_auth = enabled])

NextAuth ==
  \/ \E credentials \in InternalCredentials : SendCredentials(credentials)
  \/ heartbeat
  \/ \E s \in Sessions : events_stream(s)
  \/ \E s \in Sessions : \E is_disconnected \in BOOLEAN : Poll(s, is_disconnected)
  \/ \E t \in TestIds : \E r \in Outcomes : submit_results(t, r)
  \/ \E c \in Clients : \E data \in DispatchPayloads : run_test(c, data)

SpecAuth == InitAuth /\ [][NextAuth]_vars

\* The admission specification: submissions of acceptable and unacceptable
\* payloads by two clients under a small rate limit and a small size limit,
\* while the clock advances and until the server shuts down.
AdmitPayloads ==
  { <<>>,                              \* no data
    <<80, 75, 3, 4>>,                  \* not an rbxm file
    RBXM_SIGNATURE,                    \* acceptable
    RBXM_SIGNATURE \o [k \in 1..(AdmitMaxSize - 7) |-> 0],  \* too large
    [k \in 1..(AdmitMaxSize + 1) |-> 0] }   \* too large and not an rbxm file

InitAdmit ==
  \E n \in 1..MaxRate :
    InitState([DispatchConfig EXCEPT !.max_requests_per_minute = n,
                                     !.max_rbxm_size = AdmitMaxSize,
                                     !.shutdown_timeout = DrainTimeout])

\* datetime.now() advances between two requests
Tick ==
  /\ now + ClockStep <= MaxNow
  /\ now' = now + ClockStep
  /\ UNCHANGED << configVars, processVars, watchVars, managerVars, authVars, monitorVars, lifespanVars, diagVars, accepting_tests, rate_limiter, test_queue,
                  active_tests, next_id, handler, test_reply, studio_healthy,
                  results_reply, sessionVars >>

NextAdmit ==
  \/ \E c \in AdmitClients : \E data \in AdmitPayloads : run_test(c, data)
  \/ Tick
  \/ Shutdown
  \/ MonitorJoined
  \/ DrainWake

SpecAdmit == InitAdmit /\ [][NextAdmit]_vars

\* The drain specification: submissions, their handlers, POST /_results and
\* the shutdown of the server.  The event loop runs every task that is ready:
\* the cancelled heartbeat task ends, and a sleep of the drain loop ends.  A
\* handler is under no such obligation: its job may never finish.
InitDrain == InitState([DispatchConfig EXCEPT !.shutdown_timeout = DrainTimeout])

NextDrain ==
  \/ \E c \in Clients : \E data \in DispatchPayloads : run_test(c, data)
  \/ \E t \in TestIds : ResultReady(t)
  \/ \E t \in TestIds : \E write_ok \in BOOLEAN : WaitTimeout(t, write_ok)
  \/ \E t \in TestIds : CancelHandler(t)
  \/ \E t \in TestIds : \E r \in Outcomes : submit_results(t, r)
  \/ Shutdown
  \/ MonitorJoined
  \/ DrainWake

SpecDrain ==
  /\ InitDrain
  /\ [][NextDrain]_vars
  /\ WF_vars(MonitorJoined)
  /\ WF_vars(DrainWake)

\* ===================================================================== claims
\* the sessions that hold test id t as their current_test_data
Holders(t) == { s \in Sessions : sess[s].current_test_data.test_id = t }

\* session s gives up the job it streams: its generator ends by the return
\* of the chunk loop's disconnect check or by a raise out of an await
GivesUp(s) ==
  /\ sess[s].current_test_data # NoTestData
  /\ sess'[s].pc = "closed"
  /\ sess'[s].exit \in {"return", "raise"}

\* C1 (as claimed): when a session ends after the test_start of its job and
\* before the delivery completed, the job is reinserted at the head of the
\* queue, ahead of every job that was already waiting.
C1_RequeuedAtFront ==
  [][\A s \in Sessions :
       GivesUp(s) =>
         /\ test_queue' # <<>>
         /\ Head(test_queue') = sess[s].current_test_data]_vars

\* C1 witness: a job that was put back waits in the queue behind a job that
\* was submitted after it.
C1_Witness ==
  /\ Len(test_queue) = 2
  /\ test_queue[2].test_id \in requeued
  /\ test_queue[1].test_id > test_queue[2].test_id

\* C2: when the disconnect check of the chunk loop finds the worker gone
\* (events.py:78-85), the queue holds exactly one copy of the job once the
\* generator has returned, whichever chunk the check preceded.
C2_ChunkDisconnectRequeuesOnce ==
  [][\A s \in Sessions :
       (sess[s].pc = "check" /\ sess'[s].pc = "closed" /\ sess'[s].exit = "return")
         => CountIn(test_queue', sess[s].current_test_data.test_id) = 1]_vars

\* C2 witness: a session returned from the disconnect check that preceded
\* its second chunk (test_start and one chunk went out), and the job is in
\* the queue once.
C2_Witness ==
  \E s \in Sessions :
    /\ sess[s].pc = "closed"
    /\ sess[s].exit = "return"
    /\ Len(stream[s]) = 2
    /\ CountIn(test_queue, stream[s][1].test_id) = 1

\* C3 (as claimed): a job that a delivery loop has popped and whose delivery
\* has not completed is never lost and never duplicated, whichever way the
\* delivery task ends: it is in the queue once or held by one session.
C3_InFlightJobRequeuedOnce ==
  \A t \in started \ delivered :
    CountIn(test_queue, t) + Cardinality(Holders(t)) = 1

\* C3 witness: a generator was closed at a yield, and the job it held is
\* neither in the queue nor held by a session nor delivered.
C3_Witness ==
  \E s \in Sessions : \E t \in started \ delivered :
    /\ sess[s].pc = "closed"
    /\ sess[s].exit = "GeneratorExit"
    /\ stream[s] # <<>>
    /\ Last(stream[s]).test_id = t
    /\ CountIn(test_queue, t) = 0
    /\ Holders(t) = {}

\* C4: no two sessions are between test_start and the end of the delivery
\* of the same test id at the same time.
C4_OneStreamPerJob ==
  \A s1, s2 \in Sessions :
    ( /\ s1 # s2
      /\ sess[s1].current_test_data # NoTestData
      /\ sess[s2].current_test_data # NoTestData )
      => sess[s1].current_test_data.test_id # sess[s2].current_test_data.test_id

\* C4 witness: two sessions are in the chunk loops of their jobs at the same
\* time.
C4_Witness ==
  \E s1, s2 \in Sessions :
    /\ s1 # s2
    /\ sess[s1].pc \in {"check", "y_chunk", "sleep"}
    /\ sess[s2].pc \in {"check", "y_chunk", "sleep"}

\* C5: a job whose delivery is in flight is not in the queue, and no test id
\* is in the queue twice.
C5_InFlightNotQueued ==
  /\ \A s \in Sessions :
       sess[s].current_test_data # NoTestData
         => CountIn(test_queue, sess[s].current_test_data.test_id) = 0
  /\ \A t \in TestIds : CountIn(test_queue, t) <= 1

\* C5 witness: a job is in flight while a job that was put back waits in the
\* queue.
C5_Witness ==
  \E s \in Sessions :
    /\ sess[s].current_test_data # NoTestData
    /\ \E t \in requeued : CountIn(test_queue, t) = 1

\* the delivery on session s has run to its end (events.py:104) and the
\* session is back at the top of its loop
BackAtTop(s) == sess[s].pc \in {"poll", "get"} /\ stream[s] # <<>>

\* C6 (as claimed): a delivery in which all chunks were sent ends with an
\* `end` event for the job: when the session is back at the top of its loop
\* the last event it yielded is neither a test_start nor a test_chunk.
C6_EndEventAfterFinalChunk ==
  \A s \in Sessions :
    BackAtTop(s) => Last(stream[s]).event \notin {"test_start", "test_chunk"}

\* C6 witness: a session is back at the top of its loop after a delivery
\* whose last event is the chunk marked final.
C6_Witness ==
  \E s \in Sessions :
    /\ BackAtTop(s)
    /\ Last(stream[s]).event = "test_chunk"
    /\ Last(stream[s]).is_final_chunk

\* ----- C7: the chunked encoding of a completed delivery
\* length of the base64 text of n bytes
EncodedLen(n) == 4 * ((n + 2) \div 3)

\* the bytes of one group of four base64 characters
DecodeGroup(g) ==
  LET v(c) == IF c = PadChar THEN 0 ELSE c
      n    == v(g[1]) * 262144 + v(g[2]) * 4096 + v(g[3]) * 64 + v(g[4])
      all  == << n \div 65536, (n \div 256) % 256, n % 256 >>
  IN  IF g[3] = PadChar THEN SubSeq(all, 1, 1)
      ELSE IF g[4] = PadChar THEN SubSeq(all, 1, 2)
      ELSE all

RECURSIVE b64decode(_)
\* the bytes a base64 decoder reads from text (a multiple of 4 characters)
b64decode(text) ==
  IF Len(text) < 4 THEN <<>>
  ELSE DecodeGroup(SubSeq(text, 1, 4)) \o b64decode(SubSeq(text, 5, Len(text)))

RECURSIVE ConcatChunks(_)
\* the chunk data of a sequence of test_chunk events, concatenated in order
ConcatChunks(evs) ==
  IF evs = <<>> THEN <<>> ELSE Head(evs).chunk \o ConcatChunks(Tail(evs))

\* C7: for a completed delivery of a non-empty payload under any chunk size,
\* test_start carries the encoded length, the chunks concatenated in order
\* are the encoded payload (they decode to the payload and their lengths sum
\* to the announced total), every chunk but the last has chunk-size length,
\* and the last chunk and no other is marked final.
C7_CompletedDeliveryIsWellFormed ==
  \A s \in Sessions :
    BackAtTop(s) =>
      LET ev     == stream[s]
          data   == active_tests[ev[1].test_id].data
          chunks == Tail(ev)
          n      == Len(chunks)
      IN  /\ ev[1].event = "test_start"
          /\ ev[1].total_size = EncodedLen(Len(data))
          /\ n >= 1
          /\ \A k \in 1..n : chunks[k].event = "test_chunk"
                          /\ chunks[k].test_id = ev[1].test_id
          /\ Len(ConcatChunks(chunks)) = ev[1].total_size
          /\ b64decode(ConcatChunks(chunks)) = data
          /\ \A k \in 1..(n - 1) : Len(chunks[k].chunk) = app_config.chunk_size
          /\ Len(chunks[n].chunk) \in 1..app_config.chunk_size
          /\ \A k \in 1..n : chunks[k].is_final_chunk <=> (k = n)

\* C7 witness: a completed delivery of several chunks whose last chunk is
\* shorter than the chunk size, of a payload whose encoding ends in padding.
C7_Witness ==
  \E s \in Sessions :
    /\ BackAtTop(s)
    /\ Len(stream[s]) >= 4
    /\ Len(Last(stream[s]).chunk) < app_config.chunk_size
    /\ Last(Last(stream[s]).chunk) = PadChar

\* session s pops a job and yields the first test_start of that test id
FirstStart(s, t) ==
  /\ t \notin started
  /\ Len(stream'[s]) = Len(stream[s]) + 1
  /\ Last(stream'[s]).event = "test_start"
  /\ Last(stream'[s]).test_id = t

\* C8 (as claimed): jobs are delivered in submission order, and the only
\* deviation is that a job that was put back is delivered ahead of the
\* submissions that have not started yet: when the first test_start of a
\* job is yielded, every job submitted before it has started, and no job
\* that was put back is still waiting in the queue behind it.
C8_DeliveredInSubmissionOrder ==
  [][\A s \in Sessions : \A b \in TestIds :
       FirstStart(s, b) =>
         /\ \A a \in TestIds : a < b => a \in started
         /\ \A a \in requeued : CountIn(test_queue, a) = 0]_vars

\* the part of C8 that holds: the first test_start events follow the
\* submission order, so two jobs that were never put back start in the
\* order they were submitted in
C8_StartsInSubmissionOrder ==
  \A a, b \in TestIds :
    (a < b /\ b \in started) => a \in started

\* C8 witness: job 2 is being streamed for the first time while job 1,
\* submitted before it and put back, waits in the queue.
C8_Witness ==
  /\ 1 \in requeued
  /\ CountIn(test_queue, 1) = 1
  /\ 2 \notin requeued
  /\ \E s \in Sessions : sess[s].current_test_data.test_id = 2

\* C9: a result submitted for a registered job whose future is still pending
\* writes that outcome; a later submission for the same registered job
\* leaves the stored outcome and the map as they are and is answered
\* `accepted`.
C9_SecondResultIsNoOp ==
  [][\A t \in TestIds : \A r \in Outcomes :
       (submit_results(t, r) /\ t \in DOMAIN active_tests) =>
         /\ results_reply'.status = "accepted"
         /\ DOMAIN active_tests' = DOMAIN active_tests
         /\ IF active_tests[t].future.state = "pending"
            THEN active_tests'[t].future = [state |-> "done", result |-> r]
            ELSE active_tests' = active_tests]_vars

\* C9 witness: a submission found the future of a registered job already
\* completed and was answered `accepted`.
C9_Witness ==
  /\ results_reply.status = "accepted"
  /\ results_reply.log = "future already completed"
  /\ results_reply.test_id \in DOMAIN active_tests
  /\ active_tests[results_reply.test_id].future.state = "done"

\* C10: a result for a test id that is not in the active map is answered
\* 404 and changes neither the queue nor the active map nor a handler; a job
\* whose handler has returned or was cancelled is not in the active map.
C10_UnknownResultIsNotFound ==
  [][\A t \in TestIds : \A r \in Outcomes :
       ( /\ submit_results(t, r)
         /\ \/ t \notin DOMAIN active_tests
            \/ handler[t].pc \in {"returned", "cancelled"} ) =>
         /\ results_reply' = ResultsReply(t, "404", "unknown test")
         /\ UNCHANGED << test_queue, active_tests, handler >>]_vars

\* C10 witness: a result arrived for a job whose handler had answered
\* `timeout`, and was answered 404.
C10_Witness ==
  /\ results_reply.status = "404"
  /\ results_reply.test_id \in TestIds
  /\ handler[results_reply.test_id].pc = "returned"
  /\ handler[results_reply.test_id].response.status = "timeout"

\* the counts of a posted result, as the submitter's response should carry them
Counts(outcome) == [passed |-> outcome.passed, failed |-> outcome.failed]

\* C11 (as claimed): when the handler of a job returns `completed`, the
\* results field of its response carries the counts of the result that was
\* submitted for the job, not an absent value.
C11_CompletedCarriesCounts ==
  [][\A t \in TestIds :
       ( /\ handler[t].pc # "returned"
         /\ handler'[t].pc = "returned"
         /\ handler'[t].response.status = "completed" ) =>
         /\ handler'[t].response.results # None
         /\ handler'[t].response.results = Counts(active_tests[t].future.result)]_vars

\* C11 witness: a handler has answered `completed` for a job whose posted
\* result had success = true, and the results field of the answer is None.
C11_Witness ==
  \E t \in TestIds :
    /\ handler[t].pc = "returned"
    /\ handler[t].response.status = "completed"
    /\ handler[t].response.results = None

\* C12: when the wait of a job ends with no result written, the handler
\* answers `timeout`, and the diagnostic store either gains the file named
\* after the job's id with the job's payload as content, or (the write
\* failed) stays as it was; no other file changes.
C12_TimeoutWritesDiagnostic ==
  [][\A t \in TestIds :
       ( /\ handler[t].pc = "waitResult"
         /\ handler'[t].pc = "returned"
         /\ active_tests[t].future.state = "pending" ) =>
         /\ handler'[t].response.status = "timeout"
         /\ \/ repro_hangs' = repro_hangs
            \/ repro_hangs' = (t :> active_tests[t].data) @@ repro_hangs]_vars

\* C12 witness: two handlers answered `timeout`; the diagnostic file of one
\* holds its payload, the write of the other failed.
C12_Witness ==
  \E t, u \in TestIds :
    /\ handler[t].response.status = "timeout"
    /\ handler[u].response.status = "timeout"
    /\ t \in DOMAIN repro_hangs
    /\ repro_hangs[t] = RBXM_SIGNATURE
    /\ u \notin DOMAIN repro_hangs

\* the queue depth sampled when test id t was submitted: no action of the
\* correlation specification takes an item out of the queue, so it is the
\* position the job has in the queue
SubmitDepth(t) == CHOOSE i \in 1..Len(test_queue) : test_queue[i].test_id = t

\* C13 (as claimed): the wait bound of a job is the queue depth sampled at
\* the job's submission times the per-job timeout, whatever was queued
\* afterwards.
C13_BoundSampledAtSubmission ==
  \A t \in TestIds :
    handler[t].pc = "waitResult" => handler[t].bound = SubmitDepth(t) * test_timeout

\* the part of C13 that holds: the bound is computed once, when the handler
\* enters its wait, from the queue depth of that moment, and no later step
\* changes it
C13_BoundFixedAtWaitEntry ==
  [][\A t \in TestIds :
       /\ (handler[t].pc # "waitResult" /\ handler'[t].pc = "waitResult")
            => handler'[t].bound = Len(test_queue') * test_timeout
       /\ handler[t].pc = "waitResult" => handler'[t].bound = handler[t].bound]_vars

\* C13 witness: the first job waits for its result under the bound of a
\* queue of two.
C13_Witness ==
  /\ handler[1].pc = "waitResult"
  /\ handler[1].bound = 2 * test_timeout

\* the timestamps of stamps that lie inside the 60 seconds before t
InWindow(stamps, t) == { i \in 1..Len(stamps) : t - stamps[i] < 60 }

\* C14: a submission of a client that has max_requests_per_minute recorded
\* submissions inside the trailing 60 seconds is rejected with 429 and is not
\* recorded; a submission of a client with fewer than that inside the window
\* (the older ones have slid out) passes the rate check and is recorded.
C14_RateLimitPerWindow ==
  [][\A c \in AdmitClients : \A data \in AdmitPayloads :
       (run_test(c, data) /\ accepting_tests) =>
         LET n == Cardinality(InWindow(rate_limiter[c], now))
         IN  IF n >= app_config.max_requests_per_minute
             THEN /\ test_reply' = 429
                  /\ Cardinality(InWindow(rate_limiter'[c], now)) = n
                  /\ UNCHANGED << test_queue, active_tests >>
             ELSE /\ test_reply' # 429 \/ test_reply = 429
                  /\ Cardinality(InWindow(rate_limiter'[c], now)) = n + 1
                  /\ Last(rate_limiter'[c]) = now]_vars

\* C14 witness: a client was rejected with 429, the window has slid past its
\* recorded submissions, and its next submission has been accepted.
C14_Witness ==
  \E c \in AdmitClients :
    /\ app_config.max_requests_per_minute = 2
    /\ test_reply = 429
    /\ now >= 60
    /\ rate_limiter[c] = <<now>>
    /\ rate_limiter[CHOOSE d \in AdmitClients : d # c] = <<>>
    /\ next_id = 3

\* the admission rejections of run_test: NotAccepting, RateLimited,
\* EmptyPayload and InvalidFormat, PayloadTooLarge
RejectionCodes == {503, 429, 400, 413}

\* a submission that run_test admits takes the next test id
Admitted == next_id' = next_id + 1

\* C15: a submission that is rejected at admission, for whichever of the
\* five reasons, leaves the queue and the active map as they are.
C15_RejectionChangesNothing ==
  [][\A c \in AdmitClients : \A data \in AdmitPayloads :
       (run_test(c, data) /\ ~Admitted) =>
         /\ test_reply' \in RejectionCodes
         /\ UNCHANGED << test_queue, active_tests, handler >>]_vars

\* C15 witness: the last rejection was PayloadTooLarge and the queue holds
\* the one job that was admitted before it.
C15_Witness ==
  /\ test_reply = 413
  /\ Len(test_queue) = 1
  /\ DOMAIN active_tests = {1}

\* C16: once the gate is closed it stays closed, and every submission made
\* while it is closed is answered 503 and changes neither the queue nor the
\* active map nor the rate limiter.
C16_ClosedGateRejectsAll ==
  [][~accepting_tests =>
       /\ ~accepting_tests'
       /\ \A c \in AdmitClients : \A data \in AdmitPayloads :
            run_test(c, data) =>
              /\ test_reply' = 503
              /\ UNCHANGED << test_queue, active_tests, next_id, rate_limiter >>]_vars

\* C16 witness: the gate is closed, and a submission was answered 503 while a
\* further job could still have been admitted.
C16_Witness ==
  /\ ~accepting_tests
  /\ test_reply = 503
  /\ next_id <= MaxJobs

\* the grace period of the drain loop, in wait intervals
GracePolls == app_config.shutdown_timeout * PollsPerSecond

\* C17: once the gate is closed the drain ends, whether or not the jobs in
\* the active map ever finish: the loop never waits longer than the grace
\* period, it is left only with the map empty or the grace period used up,
\* and lifespan always gets past it.
C17_DrainTerminates ==
  /\ [](lifespan.elapsed <= GracePolls)
  /\ [](lifespan.pc = "done" =>
          (active_tests = <<>> \/ lifespan.elapsed = GracePolls))
  /\ (lifespan.pc = "awaitMonitor" ~> lifespan.pc = "done")

\* C17 witness: the drain has ended after the whole grace period with a job
\* still in the active map.
C17_Witness ==
  /\ lifespan.pc = "done"
  /\ lifespan.elapsed = GracePolls
  /\ active_tests # <<>>

\* the handler of test id t is still running
Running(t) == handler[t].pc \in {"waitHealthy", "waitResult"}

\* C18: the job of a handler that has returned (completed, failed, timeout,
\* error) or was cancelled is not in the active map, and every job in the
\* active map has a running handler.
C18_ActiveMapHoldsRunningOnly ==
  \A t \in TestIds :
    /\ handler[t].pc \in {"returned", "cancelled"} => t \notin DOMAIN active_tests
    /\ t \in DOMAIN active_tests => Running(t)

\* C18 witness: one handler was cancelled during its wait, another answered
\* `timeout`, and the active map is empty.
C18_Witness ==
  /\ \E t \in TestIds : handler[t].pc = "cancelled"
  /\ \E t \in TestIds : handler[t].pc = "returned"
                        /\ handler[t].response.status = "timeout"
  /\ active_tests = <<>>

\* C19 (as claimed): the handler of every accepted submission eventually
\* ends: it answers completed, failed, timeout or error (or its client has
\* gone), also when the studio never becomes healthy again.
C19_AcceptedJobIsAnswered ==
  \A t \in TestIds :
    Running(t) ~> (handler[t].pc \in {"returned", "cancelled"})

\* the part of C19 that holds: a handler that has entered its wait for the
\* result ends, whatever the worker does
C19_WaitForResultEnds ==
  \A t \in TestIds :
    (handler[t].pc = "waitResult") ~> (handler[t].pc \in {"returned", "cancelled"})

\* C19 witness: a job was accepted while the studio was not healthy, and its
\* handler sleeps in the health loop.
C19_Witness ==
  /\ ~studio_healthy
  /\ \E t \in TestIds : handler[t].pc = "waitHealthy" /\ t \in DOMAIN active_tests

\* a round of the monitor that finds the studio running and the recorded
\* heartbeat older than 8 seconds
StaleRound ==
  /\ now' = now + MonitorInterval
  /\ is_running(studio)
  /\ studio.last_heartbeat # NoHeartbeat
  /\ now' - studio.last_heartbeat[1] > 8

\* C20 (as claimed): a round of the monitor that finds the studio running and
\* the heartbeat stale runs one stop-then-start cycle and clears the recorded
\* heartbeat, so that no later round restarts again before a new heartbeat
\* has been recorded and has gone stale; no other step restarts the studio.
C20_StaleHeartbeatRestartsOnce ==
  [][/\ StaleRound =>
          /\ monitor'.restarts = monitor.restarts + 1
          /\ studio'.last_heartbeat = NoHeartbeat
     /\ ~StaleRound => monitor'.restarts = monitor.restarts]_vars

\* C20 witness: the studio runs, the recorded heartbeat has been stale for
\* two rounds of the monitor, the monitor logged an error in the last one
\* and has restarted nothing.
C20_Witness ==
  /\ is_running(studio)
  /\ studio.last_heartbeat # NoHeartbeat
  /\ now - studio.last_heartbeat[1] > StaleAfter + MonitorInterval
  /\ monitor = [log |-> "error during restart", restarts |-> 0]

\* ----- C21: the rounds of the monitor that leave the studio alone
\* a round of the monitor that finds the studio not running, or no heartbeat
\* recorded, or the recorded heartbeat at most 8 seconds old
QuietRound ==
  /\ now' = now + MonitorInterval
  /\ \/ ~is_running(studio)
     \/ studio.last_heartbeat = NoHeartbeat
     \/ now' - studio.last_heartbeat[1] <= 8

\* what the monitor logs in a round that attempts no restart
QuietLogs == {"studio not running", "no heartbeat yet", "alive"}

HeartbeatRecorded ==
  /\ studio.last_heartbeat = NoHeartbeat
  /\ studio'.last_heartbeat # NoHeartbeat

\* C22 (as claimed): a round of the monitor that finds the heartbeat stale
\* force-stops the studio with skip_graceful=True, then clears the recorded
\* heartbeat, then calls start_studio(), in that order; the heartbeat is null
\* afterwards, and a null heartbeat stays null until a heartbeat is posted.
C22_RestartStopsClearsStarts ==
  /\ [][StaleRound =>
          /\ restart_steps' = RestartSteps
          /\ studio'.last_heartbeat = NoHeartbeat]_vars
  /\ [][HeartbeatRecorded =>
          /\ studio'.last_heartbeat = << now >>
          /\ now' = now]_vars

\* C22 witness: the monitor has just found the heartbeat of the running
\* studio stale for the first time; its restart ran no step, and the stale
\* heartbeat is still recorded.
C22_Witness ==
  /\ is_running(studio)
  /\ studio.last_heartbeat # NoHeartbeat
  /\ now - studio.last_heartbeat[1] = StaleAfter + MonitorInterval
  /\ monitor.log = "error during restart"
  /\ restart_steps = <<>>

\* ----- C24: what stop_studio() leaves of the process handle
\* stop_studio() is called
StopCalled == manager.call # "stop_studio" /\ manager'.call = "stop_studio"
\* stop_studio() has returned
StopReturned == manager.call = "stop_studio" /\ manager.pc = "idle"

\* C24 (as claimed): stop_studio() without a process handle does nothing and
\* returns True; whenever stop_studio() has returned, whatever the way, the
\* process handle is cleared and is_running() is false.
C24_StopClearsHandle ==
  /\ [][StopCalled /\ studio.process = "none" =>
          /\ manager'.pc = "idle"
          /\ manager'.ret = "True"
          /\ manager'.ops = <<>>
          /\ studio' = studio]_vars
  /\ [](StopReturned => studio.process = "none" /\ ~is_running(studio))

\* C24 witness: stop_studio() has returned False after the kill raised, and
\* the handle still holds the running process.
C24_Witness ==
  /\ StopReturned
  /\ manager.ret = "False"
  /\ Last(manager.ops) = "kill raised"
  /\ is_running(studio)

\* stop_studio() returns True only with the handle cleared, and its no-op
\* on a missing handle returns True
C24_SuccessfulStopClearsHandle ==
  [](StopReturned /\ manager.ret = "True" => studio.process = "none")

\* ----- C25: when start_studio() succeeds and when it launches
\* start_studio() launches a process
Launched == manager.pc = "idle" /\ manager'.pc = "verify_immediate"

\* the state of the supervisor
Phase(m) ==
  IF m.pc \in {"verify_immediate", "verify_startup"} THEN "Starting"
  ELSE IF m.pc \in {"wait_graceful", "wait_kill"} THEN "Stopping"
  ELSE IF m.call = "start_studio" /\ m.ret = "True" THEN "Running"
  ELSE "Stopped"

\* the moves of the supervisor: the cycle Stopped, Starting, Running,
\* Stopping, Stopped, with the moves of a start that fails (Starting to
\* Stopped, and then the stop of managed_studio) and of a stop that returns
\* without waiting
PhaseMoves ==
  { << "Stopped", "Starting" >>, << "Starting", "Running" >>,
    << "Running", "Stopping" >>, << "Stopping", "Stopped" >>,
    << "Starting", "Stopped" >>, << "Stopped", "Stopping" >>,
    << "Running", "Stopped" >> }

StartReturned == manager.call = "start_studio" /\ manager.pc = "idle"

\* what start_studio() has done when it ends in a failure: the executable
\* is missing, the build failed, the launch raised, the process exited at
\* once, the process exited during the startup wait
StartFailures ==
  { StartOps("no studio"), StartOps("build failed"),
    StartOps("launch raised"),
    StartOps("launched") \o << "exited" >>,
    StartOps("launched") \o << "alive", "exited" >> }

\* C31: start_studio() never raises: it ends with True or False, and with
\* False after each of its failures; when the executable is missing it
\* returns False having built nothing and launched nothing, and the process
\* handle is what it was.
C31_StartReturnsItsFailures ==
  /\ [](StartReturned => manager.ret \in {"True", "False"})
  /\ [](StartReturned /\ manager.ops \in StartFailures =>
          manager.ret = "False")
  /\ [](StartReturned =>
          manager.ops \in StartFailures \cup { StartedManager.ops })
  /\ [][start_studio("no studio") =>
          /\ manager'.pc = "idle"
          /\ manager'.ret = "False"
          /\ manager'.ops = <<>>
          /\ studio' = studio]_vars

\* C31 witness: start_studio() has returned False because the executable is
\* missing; nothing was built or launched and there is no process handle.
C31_Witness ==
  /\ StartReturned
  /\ manager.ret = "False"
  /\ manager.ops = <<>>
  /\ studio.process = "none"
  /\ lifespan.pc = "startup"

\* ----- C32: the health watch only observes
\* the task of _monitor_process_health exists and has not ended
Watching == health_watch.pc \in {"created", "sleep"}
\* a step of the task: it was watching and its position or its log changes
WatchMoves == Watching /\ health_watch' # health_watch

\* C32: a step of the health watch changes nothing but the task itself: the
\* process handle, the recorded heartbeat, the queue and the active tests,
\* the start_studio / stop_studio call in progress and the restarts of the
\* monitor are what they were; the task ends at the poll that finds the
\* process exited or the handle cleared, and with the event loop running
\* it, it does end once the process is no longer running.
C32_HealthWatchOnlyObserves ==
  /\ [][WatchMoves =>
          UNCHANGED << studio, test_queue, active_tests, manager,
                       restart_steps, monitor, lifespan >>]_vars
  /\ [][WatchMoves /\ health_watch.pc = "sleep" =>
          /\ ~is_running(studio)
          /\ health_watch'.pc = "done"]_vars
  /\ [][health_watch'.pc = "done" /\ health_watch.pc # "done" =>
          ~is_running(studio)]_vars
  /\ (Watching /\ ~is_running(studio)) ~> (health_watch.pc = "done")

\* C32 witness: stop_studio() has cleared the handle while the task slept,
\* and the task has ended at its next poll.
C32_Witness ==
  /\ health_watch = [pc |-> "done", log |-> "error monitoring"]
  /\ studio.process = "none"
  /\ StopReturned
  /\ manager.ret = "True"

\* ----- C33: the wait bound of an accepted job
\* C33 (as claimed): the bound of the wait for the result of a job is at
\* least one test_timeout: a handler that waits for its result waits under
\* such a bound, and a handler that answered `timeout` had waited under one.
C33_WaitBoundAtLeastBase ==
  \A t \in TestIds :
    \/ handler[t].pc = "waitResult"
    \/ handler[t].response = TimeoutResponse
    => handler[t].bound >= test_timeout

\* C33 witness: the worker popped the job while its handler waited for the
\* studio to be healthy; the handler then computed its bound from the empty
\* queue and answered `timeout` at once, under a bound of 0.
C33_Witness ==
  \E t \in TestIds :
    /\ handler[t].pc = "returned"
    /\ handler[t].response = TimeoutResponse
    /\ handler[t].bound = 0
    /\ t \in started
    /\ test_queue = <<>>

\* ----- C34: the jobs of the queue and the active tests
\* the test ids of the jobs in the queue
QueuedIds == { test_queue[i].test_id : i \in 1..Len(test_queue) }
\* the test ids of the jobs a session holds for the worker
InFlightIds ==
  { sess[s].current_test_data.test_id :
      s \in { r \in Sessions : sess[r].current_test_data # NoTestData } }

\* C34 (as claimed): every job that is in the queue or held by a session
\* for the worker is registered in active_tests; the job of a handler that
\* has returned is in neither.
C34_QueuedJobsAreActive ==
  /\ QueuedIds \cup InFlightIds \subseteq DOMAIN active_tests
  /\ \A t \in TestIds :
       handler[t].pc \in {"returned", "cancelled"} =>
         t \notin QueuedIds \cup InFlightIds

\* C34 witness: the handler of a job has answered `timeout` after a wait
\* under a bound of one test_timeout and has left active_tests; the job,
\* which no session has popped so far, is still in the queue, and a
\* connected session is about to pop it.
C34_Witness ==
  \E t \in TestIds : \E s \in Sessions :
    /\ handler[t].pc = "returned"
    /\ handler[t].response = TimeoutResponse
    /\ handler[t].bound = test_timeout
    /\ t \notin DOMAIN active_tests
    /\ t \notin started
    /\ t \in QueuedIds
    /\ sess[s].pc = "poll"

\* ----- C35: a job whose final chunk went out
\* session s has yielded the final chunk of test id t
SentFinalChunk(s, t) ==
  \E i \in 1..Len(stream[s]) :
    /\ stream[s][i].event = "test_chunk"
    /\ stream[s][i].test_id = t
    /\ stream[s][i].is_final_chunk

\* the test ids whose final chunk a session has yielded
FullySent == { t \in TestIds : \E s \in Sessions : SentFinalChunk(s, t) }

\* C35 (as claimed): a job whose final chunk has been yielded to the worker
\* is never in the queue again, and no step puts it there.
C35_FullySentJobNotRequeued ==
  /\ [](\A t \in FullySent : CountIn(test_queue, t) = 0)
  /\ [][\A t \in FullySent :
          CountIn(test_queue', t) <= CountIn(test_queue, t)]_vars

\* C35 witness: a session was cancelled in the pause that follows the final
\* chunk of its job and put the job back; another session popped it and has
\* yielded its final chunk a second time.
C35_Witness ==
  \E t \in TestIds : \E s1, s2 \in Sessions :
    /\ s1 # s2
    /\ sess[s1].pc = "closed"
    /\ sess[s1].exit = "raise"
    /\ stream[s1] # <<>>
    /\ Last(stream[s1]).event = "test_chunk"
    /\ Last(stream[s1]).test_id = t
    /\ Last(stream[s1]).is_final_chunk
    /\ t \in requeued
    /\ SentFinalChunk(s2, t)

\* ----- C36: one studio process at a time
\* the processes launched by studio_manager that have not exited
AliveProcesses == { i \in 1..Len(processes) : processes[i] = "alive" }

Resolved(t) ==
  /\ t \in DOMAIN active_tests
  /\ t \in DOMAIN active_tests'
  /\ active_tests[t].future.state = "pending"
  /\ active_tests'[t].future.state = "done"

\* the handler of test id t answers with an outcome at the step
AnswersOutcome(t) ==
  /\ handler[t].response = NoResponse
  /\ handler'[t].response.status \in {"completed", "failed"}

\* C37: a result posted for a test id leaves the entry of every other test
\* id as it is; a future is completed only by a result posted under its own
\* test id, with the outcome of that result; a handler that answers with an
\* outcome answers with the one its own future holds.
C37_ResultsCorrelatedById ==
  /\ [][\A t \in TestIds : \A r \in Outcomes :
          submit_results(t, r) =>
            \A u \in (DOMAIN active_tests) \ {t} :
              /\ u \in DOMAIN active_tests'
              /\ active_tests'[u] = active_tests[u]]_vars
  /\ [][\A t \in TestIds :
          Resolved(t) =>
            \E r \in Outcomes :
              /\ submit_results(t, r)
              /\ active_tests'[t].future.result = ResultData(r)]_vars
  /\ [][\A t \in TestIds :
          AnswersOutcome(t) =>
            /\ t \in DOMAIN active_tests
            /\ active_tests[t].future.state = "done"
            /\ handler'[t].response =
                 OutcomeResponse(active_tests[t].future.result)]_vars

\* C37 witness: two jobs were in flight; the result of the second, a
\* failure, was posted before the result of the first, a success, and each
\* handler has answered with the outcome posted under its own test id.
C37_Witness ==
  /\ results_reply = ResultsReply(1, "accepted", "received")
  /\ handler[1].response.status = "completed"
  /\ handler[2].response.status = "failed"
  /\ handler[2].response.error = "boom"
  /\ handler[1].bound = 2 * test_timeout

\* ----- C30: the escalation of stop_studio()
\* what stop_studio() has done when it issues the kill: the termination
\* signal, then a graceful wait that lasted its whole timeout with every
\* poll finding the process alive, then the kill
EscalationOps ==
  << "terminate" >> \o [k \in 1..GracefulLimit |-> "alive"]
                   \o << "timeout", "kill" >>

\* the process has outlived the wait that follows the kill
SurvivedKill ==
  /\ StopReturned
  /\ Len(manager.ops) = Len(EscalationOps) + KillLimit + 2
  /\ \A k \in 1..KillLimit : manager.ops[Len(EscalationOps) + k] = "alive"
  /\ manager.ops[Len(EscalationOps) + KillLimit + 1] = "timeout"

\* C30: stop_studio() issues the kill only after it has sent the termination
\* signal and the graceful wait has timed out with the process alive at
\* each of its polls; when the process is still alive after the wait that
\* follows the kill, stop_studio() returns True all the same.
C30_KillOnlyAfterGracefulTimeout ==
  /\ [](manager.call = "stop_studio" =>
          \A i \in 1..Len(manager.ops) :
            manager.ops[i] = "kill" =>
              /\ i = Len(EscalationOps)
              /\ SubSeq(manager.ops, 1, i) = EscalationOps)
  /\ [](SurvivedKill => manager.ret = "True")

\* C30 witness: stop_studio() has returned after a kill that the process
\* outlived: every poll of both waits found it alive, and the handle is
\* cleared.
C30_Witness ==
  /\ SurvivedKill
  /\ studio.process = "none"
  /\ SubSeq(manager.ops, 1, Len(EscalationOps)) = EscalationOps

\* ----- C23: what follows a restart that failed
\* what the monitor logs when a restart did not bring the studio up
FailedRestartLogs == {"restart failed", "error during restart"}

C23_NoRestartStepEverRuns == restart_steps = <<>> /\ monitor.restarts = 0

Authorised ==
  \/ ~app_config.enable_auth
  \/ /\ auth.credentials # NoCredentials
     /\ auth.credentials[1].scheme \in {"Bearer", "bearer"}
     /\ auth.credentials[1].credentials = SessionToken

\* the recorded heartbeat changes
HeartbeatUpdated == studio'.last_heartbeat # studio.last_heartbeat

\* the pending future of an active test is resolved
ResultResolved ==
  \E t \in DOMAIN active_tests :
    /\ t \in DOMAIN active_tests'
    /\ active_tests[t].future.state = "pending"
    /\ active_tests'[t].future.state = "done"

\* the event stream of a session is opened
StreamOpened == \E s \in Sessions : sess[s].pc = "new" /\ sess'[s].pc # "new"

\* session s pops a job
PoppedBy(s) ==
  /\ Len(test_queue') < Len(test_queue)
  /\ sess'[s].current_test_data # sess[s].current_test_data

\* C26 (as claimed): the heartbeat is updated, a pending result is resolved
\* and an event stream is opened only for a request that is authorised, and
\* a job is popped only by a session whose stream was opened.
C26_InternalEndpointsNeedToken ==
  /\ [][HeartbeatUpdated \/ ResultResolved \/ StreamOpened => Authorised]_vars
  /\ [][\A s \in Sessions : PoppedBy(s) => sess[s].pc \in {"poll", "get"}]_vars

\* the same for /_heartbeat and /_events alone, which do declare the
\* dependency
C26_HeartbeatAndEventsNeedToken ==
  /\ [][HeartbeatUpdated \/ StreamOpened => Authorised]_vars
  /\ [][\A s \in Sessions : PoppedBy(s) => sess[s].pc \in {"poll", "get"}]_vars

\* C26 witness: with authentication enabled, a request without credentials
\* has resolved the pending result of a test.
C26_Witness ==
  /\ app_config.enable_auth
  /\ auth.credentials = NoCredentials
  /\ auth.status = 401
  /\ results_reply.status = "accepted"
  /\ \E t \in DOMAIN active_tests : active_tests[t].future.state = "done"

\* ----- C27: an exception inside run_test
\* the other jobs are as they were: their handlers, their entries of the
\* active map and their futures
OthersUntouched(t) ==
  \A u \in TestIds \ {t} :
    /\ handler'[u] = handler[u]
    /\ (u \in DOMAIN active_tests) = (u \in DOMAIN active_tests')
    /\ u \in DOMAIN active_tests => active_tests'[u] = active_tests[u]

\* the handler of t returns the outcome that was written to its future
Answered(t) ==
  /\ handler[t].pc = "waitResult"
  /\ t \in DOMAIN active_tests
  /\ active_tests[t].future.state = "done"
  /\ handler'[t].pc = "returned"

\* C27: an exception raised in run_test after admission is answered with
\* status `error` for that job; the server goes on serving and the other
\* jobs, their pending results included, are as they were; an outcome with
\* success = false is answered with status `failed`.
C27_HandlerErrorIsAnswered ==
  /\ [][\A t \in TestIds : HandlerError(t) =>
          /\ handler'[t].pc = "returned"
          /\ handler'[t].response.status = "error"
          /\ OthersUntouched(t)
          /\ accepting_tests' = accepting_tests
          /\ lifespan' = lifespan]_vars
  /\ [][\A t \in TestIds :
          Answered(t) /\ ~active_tests[t].future.result.success =>
            /\ handler'[t].response.status = "failed"
            /\ OthersUntouched(t)]_vars

\* C27 witness: the handler of one job has answered `error` while the other
\* job waits for its result, its future pending.
C27_Witness ==
  \E t, u \in TestIds :
    /\ t # u
    /\ handler[t].pc = "returned"
    /\ handler[t].response.status = "error"
    /\ handler[u].pc = "waitResult"
    /\ u \in DOMAIN active_tests
    /\ active_tests[u].future.state = "pending"
    /\ accepting_tests

\* ----- C28: the order of the admission checks and the rate window
\* the first admission check that a submission of client c with payload
\* data fails, in the order draining, rate limit, empty, too large, invalid
\* signature
FirstFailing(c, data) ==
  IF ~accepting_tests THEN "draining"
  ELSE IF Cardinality(InWindow(rate_limiter[c], now))
            >= app_config.max_requests_per_minute THEN "rate limit"
  ELSE IF Len(data) = 0 THEN "empty"
  ELSE IF Len(data) > app_config.max_rbxm_size THEN "too large"
  ELSE IF \/ Len(data) < Len(RBXM_SIGNATURE)
          \/ \E k \in 1..Len(RBXM_SIGNATURE) : data[k] # RBXM_SIGNATURE[k]
       THEN "invalid signature"
  ELSE "none"

\* the status of the rejection of each check
RejectionOf(check) ==
  CASE check = "draining" -> 503
    [] check = "rate limit" -> 429
    [] check = "empty" -> 400
    [] check = "too large" -> 413
    [] check = "invalid signature" -> 400

\* C28: a submission is rejected by the first check it fails, in the order
\* draining, rate limit, empty, too large, invalid signature, and is
\* admitted when it fails none; a draining or rate-limited rejection adds
\* nothing to the window of the client, and a submission that passes the
\* rate check adds one entry to it even when its payload is rejected.
C28_FirstFailingCheckRejects ==
  [][\A c \in AdmitClients : \A data \in AdmitPayloads :
       run_test(c, data) =>
         LET check == FirstFailing(c, data)
             n == Cardinality(InWindow(rate_limiter[c], now))
         IN  /\ IF check = "none"
                THEN Admitted
                ELSE ~Admitted /\ test_reply' = RejectionOf(check)
             /\ IF check \in {"draining", "rate limit"}
                THEN /\ Cardinality(InWindow(rate_limiter'[c], now)) = n
                     /\ Len(rate_limiter'[c]) <= Len(rate_limiter[c])
                ELSE /\ Cardinality(InWindow(rate_limiter'[c], now)) = n + 1
                     /\ Last(rate_limiter'[c]) = now]_vars

\* C28 witness: under a limit of one submission per minute, a client whose
\* only submission so far was rejected for its payload has been rejected
\* with 429: the rejected payload took the slot of its window.
C28_Witness ==
  \E c \in AdmitClients :
    /\ app_config.max_requests_per_minute = 1
    /\ test_reply = 429
    /\ rate_limiter[c] = << now >>
    /\ next_id = 1
    /\ test_queue = <<>>
    /\ accepting_tests

\* ----- C29: a session after it has detected a disconnect
\* session s has detected a disconnect, at the top of its loop (`break`) or
\* before a chunk (`return`), and has taken itself out of the connections
DetectedDisconnect(s) ==
  /\ sess[s].exit \in {"break", "return"}
  /\ s \notin plugin_connections

\* C29: the step in which a session detects a disconnect emits no event, and
\* from then on the session emits nothing and pops nothing: its stream and
\* its generator stay as they are.
C29_NothingAfterDisconnect ==
  /\ [][\A s \in Sessions :
          ~DetectedDisconnect(s) /\ DetectedDisconnect(s)' =>
            stream'[s] = stream[s]]_vars
  /\ [][\A s \in Sessions :
          DetectedDisconnect(s) =>
            /\ stream'[s] = stream[s]
            /\ sess'[s] = sess[s]]_vars

\* C29 witness: a session detected a disconnect after the start event and a
\* chunk that was not the final one; its stream holds these two events, and
\* it has stayed closed while another session popped the job that it had
\* put back.
C29_Witness ==
  \E s, r \in Sessions :
    /\ s # r
    /\ DetectedDisconnect(s)
    /\ sess[s].pc = "closed"
    /\ sess[s].exit = "return"
    /\ Len(stream[s]) = 2
    /\ Last(stream[s]).event = "test_chunk"
    /\ sess[r].pc = "y_start"
    /\ sess[r].current_test_data.test_id \in requeued

=============================================================================
